---------------------------- MODULE Spec2Model ----------------------------
(***************************************************************************)
(* TokenDrop (contracts/TokenDrop.algo.ts): the drop registry, the claim   *)
(* ledger and the money movement of the contract, as a state machine.      *)
(*                                                                         *)
(* One action per ABI method.  An application call is atomic on the AVM:   *)
(* a failed assert (or a failed inner transaction) reverts the call and    *)
(* the whole transaction group it sits in, so every action either commits  *)
(* the effect of the complete handler or leaves every variable as it was   *)
(* (a failed call leaves no trace on the ledger).                          *)
(*                                                                         *)
(* The contract reads no balance but its own, so the state holds the       *)
(* balances of the contract account only; what a call moves to and from    *)
(* the other accounts is kept, for the last call that changed the state,   *)
(* in `last`.                                                              *)
(*                                                                         *)
(* Environment assumptions (the platform, not the contract):               *)
(*   - accounts other than the contract are funded well enough to pay      *)
(*     what they send, in microAlgo and in the tokens they are opted in to;*)
(*   - an account that holds a token keeps its opt-in (no close-out), so   *)
(*     an inner asset transfer to a past holder is delivered;              *)
(*   - tokens enter the contract account only through the asset transfer   *)
(*     grouped with createDrop;                                            *)
(*   - values read from other applications and assets (creators, gating    *)
(*     balances, NFD fields) are inputs of the call that reads them.       *)
(***************************************************************************)
EXTENDS Integers, Sequences, FiniteSets, TLC

(***************************************************************************)
(* Bounds of the model.                                                    *)
(***************************************************************************)
\* createDrop is only attempted while lastDropId < MaxDropId
MaxDropId == 2

(***************************************************************************)
(* Program and platform constants.                                         *)
(***************************************************************************)
GATING_TYPE_NONE == 0
GATING_TYPE_ASSETS_CREATED_BY == 1
GATING_TYPE_ASSET_ID == 2
GATING_TYPE_CREATED_BY_NFD_ADDRESSES == 3
GATING_TYPE_SEGMENT_OF_NFD == 4
GATING_TYPE_NFD_W_VERIFIED_TWITTER == 5
GATING_TYPE_NFD_W_VERIFIED_BLUESKY == 6
GATING_TYPE_NFD_HOLDING_AGE == 7
GATING_TYPE_CONST_MAX == 7

SCBOX_PERBOX == 2500
SCBOX_PERBYTE == 400
InitialCreationFee == 10000000
InitialPerClaimFee == 100000
MinCreationFeeExclusive == 2000000
OneDay == 86400
OneHour == 3600
MaxDropDays == 7
\* globals.assetOptInMinBalance and the base minimum balance of an account
AssetOptInMinBalance == 100000
AccountMinBalance == 100000

\* byte lengths of the ABI types (types.algo.ts)
LenUint64 == 8
LenUint8 == 1
LenAddress == 32
LenBytes32 == 32
GatingAssetSlots == 4
LenTokenDropConfig ==
    LenUint64 + LenUint64 + LenUint64 + LenUint8 + LenAddress
        + GatingAssetSlots * LenUint64 + LenUint64
LenTokenDropInfo ==
    LenUint64 + LenAddress + LenUint64 + LenUint64 + LenUint64 + LenTokenDropConfig
LenAddressClaimKey == LenUint64 + LenAddress
LenClaimedInfo == LenBytes32
\* box key prefixes 'd', 'tok', 'c'
LenPrefixD == 1
LenPrefixTok == 3
LenPrefixC == 1

(***************************************************************************)
(* Accounts, tokens and the start of time.                                 *)
(***************************************************************************)
AppAddress == "app"
AppCreator == "deployer"
Maintainer == "maint"
FeeSink == "feesink"
ZeroAddress == "zero"
Users == {"u1", "u2", "u3"}
Accounts == Users \cup {AppAddress, AppCreator, Maintainer, FeeSink}
Tokens == {101, 102}
StartTime == 1000000

VARIABLES
    maintainerAddress,  \* GlobalStateKey 'maintainerAddress'
    creationFeeAmount,  \* GlobalStateKey 'creationFeeAmount'
    perClaimFeeAmount,  \* GlobalStateKey 'perClaimFeeAmount'
    totalClaims,        \* GlobalStateKey 'totalClaims'
    lastDropId,         \* GlobalStateKey 'lastDropId'
    allDrops,           \* BoxMap 'd'   : TokenDropId -> TokenDropInfo
    dropForToken,       \* BoxMap 'tok' : AssetID -> TokenDropId
    claimedMap,         \* BoxMap 'c'   : AddressClaimKey -> ClaimedInfo
    appAlgo,            \* microAlgo balance of the contract account
    appAsset,           \* appAsset[t]: the contract account's balance of token t
    optedIn,            \* set of <<account, token>> holdings that exist
    now,                \* globals.latestTimestamp
    last,               \* the last call that changed the state: method, arguments,
                        \* and what it moved to (+) and from (-) the other accounts
    claimsPaid,         \* history: the AddressClaimKeys claimDrop has sent tokens for
    rentPaid            \* history: rentPaid[k]: the microAlgo claimClaimerBoxCost has
                        \* paid out for AddressClaimKey k, where it has paid any

ledgerVars ==
    <<maintainerAddress, creationFeeAmount, perClaimFeeAmount, totalClaims,
      lastDropId, allDrops, dropForToken, claimedMap, appAlgo, appAsset, optedIn>>
historyVars == <<claimsPaid, rentPaid>>
vars == <<ledgerVars, now, last, historyVars>>

(***************************************************************************)
(* The ledger as one value, so that a handler is a function from the       *)
(* ledger before the call to the ledger after it.  ok = FALSE marks a      *)
(* failed assertion; err is its text.  algo and asset hold the balances of  *)
(* the contract account and, for every other account, what the call has   *)
(* moved to it so far.                                                     *)
(***************************************************************************)
Ledger ==
    [maintainerAddress |-> maintainerAddress,
     creationFeeAmount |-> creationFeeAmount,
     perClaimFeeAmount |-> perClaimFeeAmount,
     totalClaims |-> totalClaims,
     lastDropId |-> lastDropId,
     allDrops |-> allDrops,
     dropForToken |-> dropForToken,
     claimedMap |-> claimedMap,
     algo |-> [a \in Accounts |-> IF a = AppAddress THEN appAlgo ELSE 0],
     asset |-> [a \in Accounts |-> [t \in Tokens |->
                  IF a = AppAddress THEN appAsset[t] ELSE 0]],
     optedIn |-> optedIn,
     ok |-> TRUE,
     err |-> ""]

Fail(L, msg) == [L EXCEPT !.ok = FALSE, !.err = msg]

\* f with key k bound to v (a box written), and f without key k (a box deleted)
BoxPut(f, k, v) == [x \in DOMAIN f \cup {k} |-> IF x = k THEN v ELSE f[x]]
BoxDel(f, k) == [x \in DOMAIN f \ {k} |-> f[x]]
EmptyBoxMap == [x \in {} |-> 0]


(***************************************************************************)
(* Platform: minimum balance of the contract account and inner             *)
(* transactions.                                                           *)
(***************************************************************************)
\* minimum balance the ledger charges for one box of the given size
BoxMinBalance(totalNumBytes) == SCBOX_PERBOX + totalNumBytes * SCBOX_PERBYTE

\* this.app.address.minBalance
minBalance(L) ==
    AccountMinBalance
    + AssetOptInMinBalance * Cardinality({t \in Tokens : <<AppAddress, t>> \in L.optedIn})
    + Cardinality(DOMAIN L.allDrops)
        * BoxMinBalance(LenPrefixD + LenUint64 + LenTokenDropInfo)
    + Cardinality(DOMAIN L.dropForToken)
        * BoxMinBalance(LenPrefixTok + LenUint64 + LenUint64)
    + Cardinality(DOMAIN L.claimedMap)
        * BoxMinBalance(LenPrefixC + LenAddressClaimKey + LenClaimedInfo)

\* a payment transaction of the group, or sendPayment from the contract
Pay(L, from, to, amount) ==
    IF ~L.ok THEN L
    ELSE IF from = AppAddress /\ L.algo[from] < amount THEN Fail(L, "overspend")
    ELSE IF from = to THEN L
    ELSE [L EXCEPT !.algo[from] = @ - amount, !.algo[to] = @ + amount]

\* sendPayment: an inner payment; the contract must keep its minimum balance
sendPayment(L, receiver, amount) ==
    LET L2 == Pay(L, AppAddress, receiver, amount) IN
    IF ~L2.ok THEN L2
    ELSE IF L2.algo[AppAddress] < minBalance(L2) THEN Fail(L2, "balance below min")
    ELSE L2

\* an asset transfer; the receiver must hold an opt-in to the asset
AssetXfer(L, from, to, token, amount) ==
    IF ~L.ok THEN L
    ELSE IF <<to, token>> \notin L.optedIn THEN Fail(L, "receiver not opted in")
    ELSE IF <<from, token>> \notin L.optedIn THEN Fail(L, "sender not opted in")
    ELSE IF from = AppAddress /\ L.asset[from][token] < amount
        THEN Fail(L, "underflow on asset transfer")
    ELSE IF from = to THEN L
    ELSE [L EXCEPT !.asset[from][token] = @ - amount,
                   !.asset[to][token] = @ + amount]

(***************************************************************************)
(* Read-only methods and private helpers of the contract.                  *)
(***************************************************************************)
costForBoxStorage(totalNumBytes) == SCBOX_PERBOX + totalNumBytes * SCBOX_PERBYTE

getDropCreateCost(L) ==
    L.creationFeeAmount
    + costForBoxStorage(LenPrefixD + LenUint64 + LenTokenDropInfo)
    + costForBoxStorage(LenPrefixTok + LenUint64 + LenUint64)

getPerClaimerMbrCost == costForBoxStorage(LenPrefixC + LenAddressClaimKey + LenClaimedInfo)

getPerClaimerFee(L) == L.perClaimFeeAmount

\* getDropInfo fails when the box does not exist
getDropInfoExists(L, tokenDropId) == tokenDropId \in DOMAIN L.allDrops

\* a variant that looks at the remaining amount only
isDropExpiredOrEmpty_onlyEmpty(dropInfo, latestTimestamp) ==
    dropInfo.AmountRemaining = 0

\* a variant that counts the second of the deadline as expired
isDropExpiredOrEmpty_atDeadline(dropInfo, latestTimestamp) ==
    dropInfo.AmountRemaining = 0 \/ latestTimestamp >= dropInfo.Config.AirdropEndTime

isDropExpiredOrEmpty(dropInfo, latestTimestamp) ==
    dropInfo.AmountRemaining = 0 \/ latestTimestamp > dropInfo.Config.AirdropEndTime

AddressClaimKey(tokenDropId, address) == [TokenDropId |-> tokenDropId, Address |-> address]

addNewDrop(L, tokenDropId, dropInfo) ==
    [L EXCEPT !.allDrops = BoxPut(@, tokenDropId, dropInfo),
              !.dropForToken = BoxPut(@, dropInfo.Config.Token, tokenDropId)]

\* a variant that deletes the record and leaves the index entry behind
removeFromDrops_keepIndex(L, tokenDropId) ==
    IF ~L.ok THEN L
    ELSE IF tokenDropId \notin DOMAIN L.allDrops THEN Fail(L, "box not found")
    ELSE [L EXCEPT !.allDrops = BoxDel(@, tokenDropId)]

removeFromDrops(L, tokenDropId) ==
    IF ~L.ok THEN L
    ELSE IF tokenDropId \notin DOMAIN L.allDrops THEN Fail(L, "box not found")
    ELSE LET dropInfo == L.allDrops[tokenDropId] IN
         [L EXCEPT !.dropForToken = BoxDel(@, dropInfo.Config.Token),
                   !.allDrops = BoxDel(@, tokenDropId)]

\* a variant that sends the tokens and does not count the claim
sendTokensFromDrop_noCount(L, dropInfo, receiver, amountToSend) ==
    LET L2 == AssetXfer(L, AppAddress, receiver, dropInfo.Config.Token, amountToSend) IN
    IF ~L2.ok THEN L2
    ELSE IF dropInfo.AmountRemaining < amountToSend THEN Fail(L2, "- would result negative")
    ELSE IF dropInfo.DropId \notin DOMAIN L2.allDrops THEN Fail(L2, "box not found")
    ELSE [L2 EXCEPT !.allDrops[dropInfo.DropId].AmountRemaining =
                        dropInfo.AmountRemaining - amountToSend]

\* sends the tokens, then writes AmountRemaining and NumClaims of the stored record
sendTokensFromDrop(L, dropInfo, receiver, amountToSend) ==
    LET L2 == AssetXfer(L, AppAddress, receiver, dropInfo.Config.Token, amountToSend) IN
    IF ~L2.ok THEN L2
    ELSE IF dropInfo.AmountRemaining < amountToSend THEN Fail(L2, "- would result negative")
    ELSE IF dropInfo.DropId \notin DOMAIN L2.allDrops THEN Fail(L2, "box not found")
    ELSE [L2 EXCEPT !.allDrops[dropInfo.DropId].AmountRemaining =
                        dropInfo.AmountRemaining - amountToSend,
                    !.allDrops[dropInfo.DropId].NumClaims = @ + 1]

\* a variant that never closes the contract's holding of the token
refundDropCreatorRemainingTokens_keepHolding(L, tokenDropId) ==
    IF ~L.ok THEN L
    ELSE IF tokenDropId \notin DOMAIN L.allDrops THEN Fail(L, "box not found")
    ELSE
    LET dropInfo == L.allDrops[tokenDropId] IN
    IF dropInfo.AmountRemaining > 0
    THEN sendTokensFromDrop(L, dropInfo, dropInfo.DropCreator, dropInfo.AmountRemaining)
    ELSE L

\* a variant that sends the creator the contract's whole balance of the token
refundDropCreatorRemainingTokens_wholeBalance(L, tokenDropId) ==
    IF ~L.ok THEN L
    ELSE IF tokenDropId \notin DOMAIN L.allDrops THEN Fail(L, "box not found")
    ELSE
    LET dropInfo == L.allDrops[tokenDropId]
        balance == L.asset[AppAddress][dropInfo.Config.Token]
        L2 == IF dropInfo.AmountRemaining > 0
              THEN sendTokensFromDrop(L, [dropInfo EXCEPT !.AmountRemaining = balance],
                                      dropInfo.DropCreator, balance)
              ELSE L
    IN IF ~L2.ok THEN L2
       ELSE IF <<AppAddress, dropInfo.Config.Token>> \notin L2.optedIn
           THEN Fail(L2, "asset balance of an account not opted in")
       ELSE IF L2.asset[AppAddress][dropInfo.Config.Token] = 0
           THEN [L2 EXCEPT !.optedIn = @ \ {<<AppAddress, dropInfo.Config.Token>>}]
       ELSE L2

\* a variant that counts the refund of the remaining tokens as a claim
refundDropCreatorRemainingTokens_counted(L, tokenDropId) ==
    IF ~L.ok THEN L
    ELSE IF tokenDropId \notin DOMAIN L.allDrops THEN Fail(L, "box not found")
    ELSE
    LET dropInfo == L.allDrops[tokenDropId]
        L2 == IF dropInfo.AmountRemaining > 0
              THEN [sendTokensFromDrop(L, dropInfo, dropInfo.DropCreator,
                                       dropInfo.AmountRemaining)
                      EXCEPT !.totalClaims = @ + 1]
              ELSE L
    IN IF ~L2.ok THEN L2
       ELSE IF <<AppAddress, dropInfo.Config.Token>> \notin L2.optedIn
           THEN Fail(L2, "asset balance of an account not opted in")
       ELSE IF L2.asset[AppAddress][dropInfo.Config.Token] = 0
           THEN [L2 EXCEPT !.optedIn = @ \ {<<AppAddress, dropInfo.Config.Token>>}]
       ELSE L2

refundDropCreatorRemainingTokens(L, tokenDropId) ==
    IF ~L.ok THEN L
    ELSE IF tokenDropId \notin DOMAIN L.allDrops THEN Fail(L, "box not found")
    ELSE
    LET dropInfo == L.allDrops[tokenDropId]
        L2 == IF dropInfo.AmountRemaining > 0
              THEN sendTokensFromDrop(L, dropInfo, dropInfo.DropCreator,
                                      dropInfo.AmountRemaining)
              ELSE L
    IN IF ~L2.ok THEN L2
       ELSE IF <<AppAddress, dropInfo.Config.Token>> \notin L2.optedIn
           THEN Fail(L2, "asset balance of an account not opted in")
       ELSE IF L2.asset[AppAddress][dropInfo.Config.Token] = 0
           \* opt-out of the asset: close the holding
           THEN [L2 EXCEPT !.optedIn = @ \ {<<AppAddress, dropInfo.Config.Token>>}]
       ELSE L2

\* a variant that pays the freed rent to the sender of the call
cleanupDrop_refundSender(L, sender, tokenDropId, latestTimestamp) ==
    IF ~L.ok THEN L
    ELSE IF tokenDropId \notin DOMAIN L.allDrops THEN Fail(L, "box not found")
    ELSE
    LET dropInfo == L.allDrops[tokenDropId] IN
    IF sender # dropInfo.DropCreator /\ ~isDropExpiredOrEmpty(dropInfo, latestTimestamp)
    THEN Fail(L, "drop MUST be expired or empty")
    ELSE
    LET preMbr == minBalance(L)
        L2 == removeFromDrops(refundDropCreatorRemainingTokens(L, tokenDropId), tokenDropId)
    IN IF ~L2.ok THEN L2
       ELSE sendPayment(L2, sender, preMbr - minBalance(L2))

\* a variant that lets any sender tear a drop down at any time
cleanupDrop_noGuard(L, sender, tokenDropId, latestTimestamp) ==
    IF ~L.ok THEN L
    ELSE IF tokenDropId \notin DOMAIN L.allDrops THEN Fail(L, "box not found")
    ELSE
    LET dropInfo == L.allDrops[tokenDropId]
        preMbr == minBalance(L)
        L2 == removeFromDrops(refundDropCreatorRemainingTokens(L, tokenDropId), tokenDropId)
    IN IF ~L2.ok THEN L2
       ELSE sendPayment(L2, dropInfo.DropCreator, preMbr - minBalance(L2))

cleanupDrop(L, sender, tokenDropId, latestTimestamp) ==
    IF ~L.ok THEN L
    ELSE IF tokenDropId \notin DOMAIN L.allDrops THEN Fail(L, "box not found")
    ELSE
    LET dropInfo == L.allDrops[tokenDropId] IN
    IF sender # dropInfo.DropCreator /\ ~isDropExpiredOrEmpty(dropInfo, latestTimestamp)
    THEN Fail(L, "drop MUST be expired or empty")
    ELSE
    LET preMbr == minBalance(L)
        L2 == removeFromDrops(refundDropCreatorRemainingTokens(L, tokenDropId), tokenDropId)
    IN IF ~L2.ok THEN L2
       ELSE sendPayment(L2, dropInfo.DropCreator, preMbr - minBalance(L2))

\* a variant without the check of the sender
cancelDrop_anySender(L, sender, tokenDropId, latestTimestamp) ==
    IF tokenDropId \notin DOMAIN L.allDrops THEN Fail(L, "box not found")
    ELSE cleanupDrop(L, sender, tokenDropId, latestTimestamp)

cancelDrop(L, sender, tokenDropId, latestTimestamp) ==
    IF tokenDropId \notin DOMAIN L.allDrops THEN Fail(L, "box not found")
    ELSE IF sender # L.allDrops[tokenDropId].DropCreator
        THEN Fail(L, "only drop creator can cancel a drop")
    ELSE cleanupDrop(L, sender, tokenDropId, latestTimestamp)

(***************************************************************************)
(* Gating.  ext holds what the call reads from outside the contract:       *)
(*   assetBalance   claimer.assetBalance(valueToVerify)                    *)
(*   assetCreator   AssetID(valueToVerify).creator                         *)
(*   nfdValid       the registry's isValidNfdAppId(name, id) for the NFD   *)
(*   nfdOwner, nfdParent, majVer, sellamt, expirationTime, twitter,        *)
(*   blueskydid, timePurchased   fields of the offered NFD                 *)
(*   caAlgo         the list of 32-byte addresses read_property returns    *)
(***************************************************************************)
\* a variant that lets the all-zero entry match
isAddressInNFDCAAlgoList_zeroMatches(caAlgoData, addrToFind) ==
    \E i \in 1..Len(caAlgoData) : caAlgoData[i] = addrToFind

isAddressInNFDCAAlgoList(caAlgoData, addrToFind) ==
    \E i \in 1..Len(caAlgoData) :
        caAlgoData[i] # ZeroAddress /\ caAlgoData[i] = addrToFind

\* a variant that takes every offered app id for a valid NFD
isNfdAppIdValid_always(ext) == TRUE

isNfdAppIdValid(ext) == ext.nfdValid

isNfdPreV3(ext) == ext.majVer = "1." \/ ext.majVer = "2."

isNfdForSale(ext) == ext.sellamt # 0

\* a variant that takes an NFD for expired in the second of its expiration
isNfdExpired_atDeadline(ext, latestTimestamp) ==
    IF ext.expirationTime = 0 THEN FALSE ELSE latestTimestamp >= ext.expirationTime

isNfdExpired(ext, latestTimestamp) ==
    IF ext.expirationTime = 0 THEN FALSE ELSE latestTimestamp > ext.expirationTime

\* the text of the first failed assertion, "" when all pass
checkValidV3NfdAndOwnedByClaimer(ext, claimer, latestTimestamp) ==
    IF ~isNfdAppIdValid(ext) THEN "provided NFD must be valid"
    ELSE IF isNfdPreV3(ext) THEN "NFD must be V3 or later"
    ELSE IF isNfdForSale(ext) THEN "NFD must not be for sale"
    ELSE IF isNfdExpired(ext, latestTimestamp) THEN "NFD must not be expired"
    ELSE IF ext.nfdOwner # claimer THEN "provided nfd for entry isn't owned by the claimer"
    ELSE ""

\* a variant that takes a configured minimum of 0 as it is
gatingBalanceCheck_noDefault(Config, valueToVerify, ext) ==
    IF valueToVerify = 0 THEN "assert failed"
    ELSE IF ext.assetBalance < Config.gatingAssetMinBalance
        THEN "must have required minimum balance of validator defined token to add stake"
        ELSE ""

\* a variant that asks for more than the configured minimum
gatingBalanceCheck_strictlyMore(Config, valueToVerify, ext) ==
    IF valueToVerify = 0 THEN "assert failed"
    ELSE LET balRequired == IF Config.gatingAssetMinBalance = 0 THEN 1
                            ELSE Config.gatingAssetMinBalance
         IN IF ext.assetBalance <= balRequired
            THEN "must have required minimum balance of validator defined token to add stake"
            ELSE ""

\* the balance requirement shared by the three asset gating types
gatingBalanceCheck(Config, valueToVerify, ext) ==
    IF valueToVerify = 0 THEN "assert failed"
    ELSE LET balRequired == IF Config.gatingAssetMinBalance = 0 THEN 1
                            ELSE Config.gatingAssetMinBalance
         IN IF ext.assetBalance < balRequired
            THEN "must have required minimum balance of validator defined token to add stake"
            ELSE ""

\* the text of the first failed assertion, "" when the claimer meets the gating
doesClaimAccountMeetGating(Config, claimer, valueToVerify, ext, latestTimestamp) ==
    LET type == Config.entryGatingType IN
    IF type = GATING_TYPE_NONE THEN ""
    ELSE IF type = GATING_TYPE_ASSETS_CREATED_BY THEN
        IF gatingBalanceCheck(Config, valueToVerify, ext) # ""
        THEN gatingBalanceCheck(Config, valueToVerify, ext)
        ELSE IF ext.assetCreator # Config.entryGatingAddress
        THEN "specified asset must be created by creator that the validator defined as a requirement to stake"
        ELSE ""
    ELSE IF type = GATING_TYPE_ASSET_ID THEN
        IF gatingBalanceCheck(Config, valueToVerify, ext) # ""
        THEN gatingBalanceCheck(Config, valueToVerify, ext)
        ELSE IF ~(\E i \in 1..GatingAssetSlots : valueToVerify = Config.entryGatingAssets[i])
        THEN "specified asset must be identical to the asset id defined as a requirement to stake"
        ELSE ""
    ELSE IF type = GATING_TYPE_CREATED_BY_NFD_ADDRESSES THEN
        IF gatingBalanceCheck(Config, valueToVerify, ext) # ""
        THEN gatingBalanceCheck(Config, valueToVerify, ext)
        ELSE IF ~isAddressInNFDCAAlgoList(ext.caAlgo, ext.assetCreator)
        THEN "specified asset must be created by creator that is one of the linked addresses in an nfd"
        ELSE ""
    ELSE IF type = GATING_TYPE_SEGMENT_OF_NFD THEN
        IF ~isNfdAppIdValid(ext) THEN "provided NFD must be valid"
        ELSE IF ~(ext.nfdOwner = claimer \/ isAddressInNFDCAAlgoList(ext.caAlgo, claimer))
        THEN "provided nfd for entry isn't owned or linked to the claimer"
        ELSE IF ext.nfdParent # Config.entryGatingAssets[1]
        THEN "specified nfd must be a segment of the nfd the validator specified as a requirement"
        ELSE ""
    ELSE IF type = GATING_TYPE_NFD_W_VERIFIED_TWITTER THEN
        IF checkValidV3NfdAndOwnedByClaimer(ext, claimer, latestTimestamp) # ""
        THEN checkValidV3NfdAndOwnedByClaimer(ext, claimer, latestTimestamp)
        ELSE IF ext.twitter = "" THEN "must have verified twitter"
        ELSE ""
    ELSE IF type = GATING_TYPE_NFD_W_VERIFIED_BLUESKY THEN
        IF checkValidV3NfdAndOwnedByClaimer(ext, claimer, latestTimestamp) # ""
        THEN checkValidV3NfdAndOwnedByClaimer(ext, claimer, latestTimestamp)
        ELSE IF ext.blueskydid = "" THEN "must have verified bluesky"
        ELSE ""
    ELSE IF type = GATING_TYPE_NFD_HOLDING_AGE THEN
        IF checkValidV3NfdAndOwnedByClaimer(ext, claimer, latestTimestamp) # ""
        THEN checkValidV3NfdAndOwnedByClaimer(ext, claimer, latestTimestamp)
        ELSE IF ext.timePurchased + Config.gatingAssetMinBalance * 24 * 60 * 60
                    > latestTimestamp
        THEN "nfd must be held for min num of days"
        ELSE ""
    \* no branch of the method matches any other tag: it returns
    ELSE ""

\* a variant that accepts a holding age of 0 days
checkGatingInfo_noAgeCheck(tokenDropInfo, gatingNfdValid) ==
    IF ~(tokenDropInfo.entryGatingType >= GATING_TYPE_NONE
         /\ tokenDropInfo.entryGatingType <= GATING_TYPE_CONST_MAX)
    THEN "assert failed"
    ELSE IF (tokenDropInfo.entryGatingType = GATING_TYPE_CREATED_BY_NFD_ADDRESSES
             \/ tokenDropInfo.entryGatingType = GATING_TYPE_SEGMENT_OF_NFD)
            /\ ~gatingNfdValid
    THEN "provided NFD App id for gating must be valid NFD"
    ELSE ""

\* a variant that does not check the range of the gating type
checkGatingInfo_noRange(tokenDropInfo, gatingNfdValid) ==
    IF (tokenDropInfo.entryGatingType = GATING_TYPE_CREATED_BY_NFD_ADDRESSES
        \/ tokenDropInfo.entryGatingType = GATING_TYPE_SEGMENT_OF_NFD)
       /\ ~gatingNfdValid
    THEN "provided NFD App id for gating must be valid NFD"
    ELSE IF tokenDropInfo.entryGatingType = GATING_TYPE_NFD_HOLDING_AGE
            /\ ~(tokenDropInfo.gatingAssetMinBalance > 0)
    THEN "asset min balance - used as nfd holding age - must be >0"
    ELSE ""

\* gatingNfdValid: isNfdAppIdValid(entryGatingAssets[0]) as the registry answers it
checkGatingInfo(tokenDropInfo, gatingNfdValid) ==
    IF ~(tokenDropInfo.entryGatingType >= GATING_TYPE_NONE
         /\ tokenDropInfo.entryGatingType <= GATING_TYPE_CONST_MAX)
    THEN "assert failed"
    ELSE IF (tokenDropInfo.entryGatingType = GATING_TYPE_CREATED_BY_NFD_ADDRESSES
             \/ tokenDropInfo.entryGatingType = GATING_TYPE_SEGMENT_OF_NFD)
            /\ ~gatingNfdValid
    THEN "provided NFD App id for gating must be valid NFD"
    ELSE IF tokenDropInfo.entryGatingType = GATING_TYPE_NFD_HOLDING_AGE
            /\ ~(tokenDropInfo.gatingAssetMinBalance > 0)
    THEN "asset min balance - used as nfd holding age - must be >0"
    ELSE ""

(***************************************************************************)
(* Administrative methods.                                                 *)
(***************************************************************************)
updateApplication(L, sender) ==
    IF sender # AppCreator THEN Fail(L, "Only the creator can update the application")
    ELSE L

\* a variant that lets any sender replace the maintainer
changeMaintainer_anySender(L, sender, newMaintainer) ==
    [L EXCEPT !.maintainerAddress = newMaintainer]

changeMaintainer(L, sender, newMaintainer) ==
    IF sender # AppCreator THEN Fail(L, "Only the creator can call")
    ELSE [L EXCEPT !.maintainerAddress = newMaintainer]

\* a variant that does not check the per-claim fee against the rent
changeFees_noClaimFeeCheck(L, sender, creationFee, perClaimFee) ==
    IF sender # AppCreator THEN Fail(L, "Only the creator can call")
    ELSE IF ~(creationFee > MinCreationFeeExclusive) THEN Fail(L, "fee must be at least 2 algo")
    ELSE IF creationFee % 2 # 0 THEN Fail(L, "fee must be even amount")
    ELSE [L EXCEPT !.creationFeeAmount = creationFee, !.perClaimFeeAmount = perClaimFee]

changeFees(L, sender, creationFee, perClaimFee) ==
    IF sender # AppCreator THEN Fail(L, "Only the creator can call")
    ELSE IF ~(creationFee > MinCreationFeeExclusive) THEN Fail(L, "fee must be at least 2 algo")
    ELSE IF creationFee % 2 # 0 THEN Fail(L, "fee must be even amount")
    ELSE IF ~(perClaimFee >= getPerClaimerMbrCost * 2)
        THEN Fail(L, "per-claim fee must >= double mbr cost")
    ELSE [L EXCEPT !.creationFeeAmount = creationFee, !.perClaimFeeAmount = perClaimFee]

(***************************************************************************)
(* optinAsset(mbrPayment, assetId).  The payment is a transaction of the   *)
(* group, made before the call.                                            *)
(***************************************************************************)
\* a variant that keeps the payment when the contract is opted in already
optinAsset_noRefund(L, sender, mbrPayment, assetId) ==
    LET G == Pay(L, mbrPayment.sender, mbrPayment.receiver, mbrPayment.amount) IN
    IF ~G.ok THEN G
    ELSE IF mbrPayment.receiver # AppAddress \/ mbrPayment.amount # AssetOptInMinBalance
        THEN Fail(G, "verifyPayTxn")
    ELSE [G EXCEPT !.optedIn = @ \cup {<<AppAddress, assetId>>}]

optinAsset(L, sender, mbrPayment, assetId) ==
    LET G == Pay(L, mbrPayment.sender, mbrPayment.receiver, mbrPayment.amount) IN
    IF ~G.ok THEN G
    ELSE IF mbrPayment.receiver # AppAddress \/ mbrPayment.amount # AssetOptInMinBalance
        THEN Fail(G, "verifyPayTxn")
    ELSE IF <<AppAddress, assetId>> \in G.optedIn
        THEN sendPayment(G, sender, AssetOptInMinBalance)
    ELSE [G EXCEPT !.optedIn = @ \cup {<<AppAddress, assetId>>}]

(***************************************************************************)
(* createDrop(feeAndMbrPayment, assetTxn, tokenDropConfig).                *)
(***************************************************************************)
\* a variant that accepts an end time of exactly one day from now
createDropValidate_inclusiveDay(L, assetTxn, tokenDropConfig, latestTimestamp) ==
    IF assetTxn.assetReceiver # AppAddress THEN "verifyAssetTransferTxn"
    ELSE IF ~(assetTxn.assetAmount > 0) THEN "must have a positive amount"
    ELSE IF assetTxn.xferAsset # tokenDropConfig.Token
        THEN "asset sent must be same as asset specified for drops"
    ELSE IF <<AppAddress, assetTxn.xferAsset>> \notin L.optedIn
        THEN "must opt-in contract first"
    ELSE IF ~(tokenDropConfig.AmountPerClaim <= assetTxn.assetAmount)
        THEN "amount per claim must be at least amount transferred"
    ELSE IF tokenDropConfig.AmountPerClaim = 0 THEN "% 0"
    ELSE IF assetTxn.assetAmount % tokenDropConfig.AmountPerClaim # 0
        THEN "amount must be divisible by amount per claim"
    ELSE IF ~(tokenDropConfig.AirdropEndTime >= latestTimestamp + OneDay)
        THEN "airdrop end time must be at least 1 day into the future"
    ELSE IF ~(tokenDropConfig.AirdropEndTime
                <= latestTimestamp + OneHour + OneDay * MaxDropDays)
        THEN "airdrop can't last more than 1 week"
    ELSE ""

\* the asserts on the arguments (lines 224-247): the first that fails, or ""
createDropValidate(L, assetTxn, tokenDropConfig, latestTimestamp) ==
    IF assetTxn.assetReceiver # AppAddress THEN "verifyAssetTransferTxn"
    ELSE IF ~(assetTxn.assetAmount > 0) THEN "must have a positive amount"
    ELSE IF assetTxn.xferAsset # tokenDropConfig.Token
        THEN "asset sent must be same as asset specified for drops"
    ELSE IF <<AppAddress, assetTxn.xferAsset>> \notin L.optedIn
        THEN "must opt-in contract first"
    ELSE IF ~(tokenDropConfig.AmountPerClaim <= assetTxn.assetAmount)
        THEN "amount per claim must be at least amount transferred"
    ELSE IF tokenDropConfig.AmountPerClaim = 0 THEN "% 0"
    ELSE IF assetTxn.assetAmount % tokenDropConfig.AmountPerClaim # 0
        THEN "amount must be divisible by amount per claim"
    ELSE IF ~(tokenDropConfig.AirdropEndTime > latestTimestamp + OneDay)
        THEN "airdrop end time must be at least 1 day into the future"
    ELSE IF ~(tokenDropConfig.AirdropEndTime
                <= latestTimestamp + OneHour + OneDay * MaxDropDays)
        THEN "airdrop can't last more than 1 week"
    ELSE ""

\* a variant that cleans the indexed drop up without asking whether it is over
createDropSupersede_noExpiryCheck(L, sender, tokenDropConfig, latestTimestamp) ==
    IF ~L.ok THEN L
    ELSE IF tokenDropConfig.Token \notin DOMAIN L.dropForToken THEN L
    ELSE IF L.dropForToken[tokenDropConfig.Token] \notin DOMAIN L.allDrops
        THEN Fail(L, "box not found")
    ELSE cleanupDrop(L, sender, L.dropForToken[tokenDropConfig.Token], latestTimestamp)

\* a variant that removes the indexed drop and refunds nothing
createDropSupersede_noRefund(L, sender, tokenDropConfig, latestTimestamp) ==
    IF ~L.ok THEN L
    ELSE IF tokenDropConfig.Token \notin DOMAIN L.dropForToken THEN L
    ELSE IF L.dropForToken[tokenDropConfig.Token] \notin DOMAIN L.allDrops
        THEN Fail(L, "box not found")
    ELSE IF ~isDropExpiredOrEmpty(L.allDrops[L.dropForToken[tokenDropConfig.Token]],
                                  latestTimestamp)
        THEN Fail(L, "existing drop must be expired or have no remaining tokens")
    ELSE removeFromDrops(L, L.dropForToken[tokenDropConfig.Token])

\* lines 249-254: a drop already indexed for the token must be expired or
\* empty, and is then cleaned up
createDropSupersede(L, sender, tokenDropConfig, latestTimestamp) ==
    IF ~L.ok THEN L
    ELSE IF tokenDropConfig.Token \notin DOMAIN L.dropForToken THEN L
    ELSE IF L.dropForToken[tokenDropConfig.Token] \notin DOMAIN L.allDrops
        THEN Fail(L, "box not found")
    ELSE IF ~isDropExpiredOrEmpty(L.allDrops[L.dropForToken[tokenDropConfig.Token]],
                                  latestTimestamp)
        THEN Fail(L, "existing drop must be expired or have no remaining tokens")
    ELSE cleanupDrop(L, sender, L.dropForToken[tokenDropConfig.Token], latestTimestamp)

\* a variant that takes the funded amount for the number of claims
newDropInfo_maxClaimsIsAmount(tokenDropId, assetTxn, tokenDropConfig) ==
    [DropId |-> tokenDropId,
     DropCreator |-> assetTxn.sender,
     AmountRemaining |-> assetTxn.assetAmount,
     MaxClaims |-> assetTxn.assetAmount,
     NumClaims |-> 0,
     Config |-> tokenDropConfig]

\* lines 262-269: the record of the new drop
newDropInfo(tokenDropId, assetTxn, tokenDropConfig) ==
    [DropId |-> tokenDropId,
     DropCreator |-> assetTxn.sender,
     AmountRemaining |-> assetTxn.assetAmount,
     MaxClaims |-> assetTxn.assetAmount \div tokenDropConfig.AmountPerClaim,
     NumClaims |-> 0,
     Config |-> tokenDropConfig]

\* a variant that numbers the new drop by the count of stored drops
createDropAllocate_idFromCount(L, assetTxn, tokenDropConfig) ==
    IF ~L.ok THEN L
    ELSE LET L2 == [L EXCEPT !.lastDropId = Cardinality(DOMAIN L.allDrops) + 1] IN
         addNewDrop(L2, L2.lastDropId,
                    newDropInfo(L2.lastDropId, assetTxn, tokenDropConfig))

\* lines 257-272: allocate the id and store the record and the index entry
createDropAllocate(L, assetTxn, tokenDropConfig) ==
    IF ~L.ok THEN L
    ELSE LET L2 == [L EXCEPT !.lastDropId = @ + 1] IN
         addNewDrop(L2, L2.lastDropId,
                    newDropInfo(L2.lastDropId, assetTxn, tokenDropConfig))

\* a variant that keeps what was paid beyond the cost
createDropSettle_keepExcess(L, feeAndMbrPayment) ==
    IF ~L.ok THEN L
    ELSE IF feeAndMbrPayment.receiver # AppAddress THEN Fail(L, "verifyPayTxn")
    ELSE
    LET mbrCosts == getDropCreateCost(L) IN
    IF ~(feeAndMbrPayment.amount >= mbrCosts) THEN Fail(L, "must pay at least MBR costs")
    ELSE
    LET L3 == sendPayment(L, L.maintainerAddress, L.creationFeeAmount \div 2)
    IN IF L3.ok THEN sendPayment(L3, FeeSink, L3.creationFeeAmount \div 2) ELSE L3

\* lines 274-295: the payment check, the refund of the excess, the fee split
createDropSettle(L, feeAndMbrPayment) ==
    IF ~L.ok THEN L
    ELSE IF feeAndMbrPayment.receiver # AppAddress THEN Fail(L, "verifyPayTxn")
    ELSE
    LET mbrCosts == getDropCreateCost(L) IN
    IF ~(feeAndMbrPayment.amount >= mbrCosts) THEN Fail(L, "must pay at least MBR costs")
    ELSE
    LET L2 == IF feeAndMbrPayment.amount > mbrCosts
              THEN sendPayment(L, feeAndMbrPayment.sender,
                               feeAndMbrPayment.amount - mbrCosts)
              ELSE L
        L3 == IF L2.ok THEN sendPayment(L2, L2.maintainerAddress, L2.creationFeeAmount \div 2)
              ELSE L2
    IN IF L3.ok THEN sendPayment(L3, FeeSink, L3.creationFeeAmount \div 2) ELSE L3

createDrop(L, sender, feeAndMbrPayment, assetTxn, tokenDropConfig, gatingNfdValid, latestTimestamp) ==
    \* the two transactions of the group that precede the call
    LET G == AssetXfer(Pay(L, feeAndMbrPayment.sender, feeAndMbrPayment.receiver,
                           feeAndMbrPayment.amount),
                       assetTxn.sender, assetTxn.assetReceiver, assetTxn.xferAsset,
                       assetTxn.assetAmount)
    IN
    IF ~G.ok THEN G
    ELSE IF createDropValidate(G, assetTxn, tokenDropConfig, latestTimestamp) # ""
        THEN Fail(G, createDropValidate(G, assetTxn, tokenDropConfig, latestTimestamp))
    ELSE
    LET L1 == createDropSupersede(G, sender, tokenDropConfig, latestTimestamp) IN
    IF ~L1.ok THEN L1
    ELSE IF checkGatingInfo(tokenDropConfig, gatingNfdValid) # ""
        THEN Fail(L1, checkGatingInfo(tokenDropConfig, gatingNfdValid))
    ELSE createDropSettle(createDropAllocate(L1, assetTxn, tokenDropConfig),
                          feeAndMbrPayment)

(***************************************************************************)
(* claimDrop(feeAndMbrPayment, tokenDropId, valueToVerify).                *)
(***************************************************************************)
\* this.txn.txID of the claim call
TxID(sender, tokenDropId) == <<"txn", sender, tokenDropId>>

\* a variant that does not ask whether the drop is over
claimDropValidate_noEndCheck(L, sender, feeAndMbrPayment, tokenDropId, valueToVerify, ext, latestTimestamp) ==
    IF tokenDropId \notin DOMAIN L.allDrops THEN "box not found"
    ELSE
    LET dropInfo == L.allDrops[tokenDropId] IN
    IF ~(sender # dropInfo.DropCreator) THEN "drop creator cannot claim"
    ELSE IF <<sender, dropInfo.Config.Token>> \notin L.optedIn
        THEN "claimant must already be opted-in to token!"
    ELSE IF AddressClaimKey(tokenDropId, sender) \in DOMAIN L.claimedMap
        THEN "already claimed"
    ELSE IF doesClaimAccountMeetGating(dropInfo.Config, sender, valueToVerify, ext,
                                       latestTimestamp) # ""
        THEN doesClaimAccountMeetGating(dropInfo.Config, sender, valueToVerify, ext,
                                        latestTimestamp)
    ELSE IF ~(getPerClaimerFee(L) >= getPerClaimerMbrCost * 2) THEN "per-claim fee too low"
    ELSE IF feeAndMbrPayment.receiver # AppAddress
            \/ feeAndMbrPayment.sender # sender
            \/ feeAndMbrPayment.amount # getPerClaimerFee(L)
        THEN "verifyPayTxn"
    ELSE ""

\* a variant without the check of the receipt
claimDropValidate_noReceiptCheck(L, sender, feeAndMbrPayment, tokenDropId, valueToVerify, ext, latestTimestamp) ==
    IF tokenDropId \notin DOMAIN L.allDrops THEN "box not found"
    ELSE
    LET dropInfo == L.allDrops[tokenDropId] IN
    IF ~(sender # dropInfo.DropCreator) THEN "drop creator cannot claim"
    ELSE IF isDropExpiredOrEmpty(dropInfo, latestTimestamp)
        THEN "airdrop has ended or out of tokens"
    ELSE IF <<sender, dropInfo.Config.Token>> \notin L.optedIn
        THEN "claimant must already be opted-in to token!"
    ELSE IF doesClaimAccountMeetGating(dropInfo.Config, sender, valueToVerify, ext,
                                       latestTimestamp) # ""
        THEN doesClaimAccountMeetGating(dropInfo.Config, sender, valueToVerify, ext,
                                        latestTimestamp)
    ELSE IF ~(getPerClaimerFee(L) >= getPerClaimerMbrCost * 2) THEN "per-claim fee too low"
    ELSE IF feeAndMbrPayment.receiver # AppAddress
            \/ feeAndMbrPayment.sender # sender
            \/ feeAndMbrPayment.amount # getPerClaimerFee(L)
        THEN "verifyPayTxn"
    ELSE ""

\* the asserts of lines 314-335: the first that fails, or ""
claimDropValidate(L, sender, feeAndMbrPayment, tokenDropId, valueToVerify, ext, latestTimestamp) ==
    IF tokenDropId \notin DOMAIN L.allDrops THEN "box not found"
    ELSE
    LET dropInfo == L.allDrops[tokenDropId] IN
    IF ~(sender # dropInfo.DropCreator) THEN "drop creator cannot claim"
    ELSE IF isDropExpiredOrEmpty(dropInfo, latestTimestamp)
        THEN "airdrop has ended or out of tokens"
    ELSE IF <<sender, dropInfo.Config.Token>> \notin L.optedIn
        THEN "claimant must already be opted-in to token!"
    ELSE IF AddressClaimKey(tokenDropId, sender) \in DOMAIN L.claimedMap
        THEN "already claimed"
    ELSE IF doesClaimAccountMeetGating(dropInfo.Config, sender, valueToVerify, ext,
                                       latestTimestamp) # ""
        THEN doesClaimAccountMeetGating(dropInfo.Config, sender, valueToVerify, ext,
                                        latestTimestamp)
    ELSE IF ~(getPerClaimerFee(L) >= getPerClaimerMbrCost * 2) THEN "per-claim fee too low"
    ELSE IF feeAndMbrPayment.receiver # AppAddress
            \/ feeAndMbrPayment.sender # sender
            \/ feeAndMbrPayment.amount # getPerClaimerFee(L)
        THEN "verifyPayTxn"
    ELSE ""

\* a variant that hands the fee sink the rent of the receipt as well
claimDropSettle_noRent(L) ==
    LET perClaimerFee == getPerClaimerFee(L)
        maintainerPortion == (perClaimerFee * 500) \div 1000
        L2 == sendPayment(L, L.maintainerAddress, maintainerPortion)
    IN IF ~L2.ok THEN L2
       ELSE sendPayment(L2, FeeSink, perClaimerFee - maintainerPortion)

\* a variant that gives the fee sink half of the fee less the rent
claimDropSettle_halves(L) ==
    LET perClaimerFee == getPerClaimerFee(L)
        mbrCost == getPerClaimerMbrCost
        maintainerPortion == (perClaimerFee * 500) \div 1000
        L2 == sendPayment(L, L.maintainerAddress, maintainerPortion)
    IN IF ~L2.ok THEN L2
       ELSE IF maintainerPortion - mbrCost < 0
           THEN Fail(L2, "- would result negative")
       ELSE sendPayment(L2, FeeSink, maintainerPortion - mbrCost)

\* lines 336-348: the split of the per-claim fee
claimDropSettle(L) ==
    LET perClaimerFee == getPerClaimerFee(L)
        mbrCost == getPerClaimerMbrCost
        maintainerPortion == (perClaimerFee * 500) \div 1000
        L2 == sendPayment(L, L.maintainerAddress, maintainerPortion)
    IN IF ~L2.ok THEN L2
       ELSE IF perClaimerFee - maintainerPortion - mbrCost < 0
           THEN Fail(L2, "- would result negative")
       ELSE sendPayment(L2, FeeSink, perClaimerFee - maintainerPortion - mbrCost)

\* a variant that counts the claim and sends the tokens but writes no receipt
claimDropRecord_noReceipt(L, sender, tokenDropId) ==
    IF ~L.ok THEN L
    ELSE
    LET dropInfo == L.allDrops[tokenDropId]
        L2 == [L EXCEPT !.totalClaims = @ + 1]
    IN sendTokensFromDrop(L2, dropInfo, sender, dropInfo.Config.AmountPerClaim)

\* a variant that writes the receipt and leaves the counter of claims alone
claimDropRecord_noCounter(L, sender, tokenDropId) ==
    IF ~L.ok THEN L
    ELSE
    LET dropInfo == L.allDrops[tokenDropId]
        L2 == [L EXCEPT !.claimedMap = BoxPut(@, AddressClaimKey(tokenDropId, sender),
                                              [TxnId |-> TxID(sender, tokenDropId)])]
    IN sendTokensFromDrop(L2, dropInfo, sender, dropInfo.Config.AmountPerClaim)

\* lines 350-356: the receipt, the counter, the tokens
claimDropRecord(L, sender, tokenDropId) ==
    IF ~L.ok THEN L
    ELSE
    LET dropInfo == L.allDrops[tokenDropId]
        L2 == [L EXCEPT !.claimedMap = BoxPut(@, AddressClaimKey(tokenDropId, sender),
                                              [TxnId |-> TxID(sender, tokenDropId)]),
                        !.totalClaims = @ + 1]
    IN sendTokensFromDrop(L2, dropInfo, sender, dropInfo.Config.AmountPerClaim)

\* optInAsset: the asset the claimant opts in to in the same group (0: none)
claimDrop(L, sender, optInAsset, feeAndMbrPayment, tokenDropId, valueToVerify, ext, latestTimestamp) ==
    LET G0 == IF optInAsset \in Tokens
              THEN [L EXCEPT !.optedIn = @ \cup {<<sender, optInAsset>>}]
              ELSE L
        G == Pay(G0, feeAndMbrPayment.sender, feeAndMbrPayment.receiver,
                 feeAndMbrPayment.amount)
    IN
    IF ~G.ok THEN G
    ELSE IF claimDropValidate(G, sender, feeAndMbrPayment, tokenDropId, valueToVerify,
                              ext, latestTimestamp) # ""
        THEN Fail(G, claimDropValidate(G, sender, feeAndMbrPayment, tokenDropId,
                                       valueToVerify, ext, latestTimestamp))
    ELSE claimDropRecord(claimDropSettle(G), sender, tokenDropId)

(***************************************************************************)
(* claimClaimerBoxCost(tokenDropId, claimerAddress, receiver).             *)
(***************************************************************************)
\* a variant that, for a key without a receipt, deletes another receipt of the drop
claimClaimerBoxCost_anyReceipt(L, tokenDropId, claimerAddress, receiver, latestTimestamp) ==
    IF tokenDropId \notin DOMAIN L.allDrops THEN Fail(L, "box not found")
    ELSE IF ~isDropExpiredOrEmpty(L.allDrops[tokenDropId], latestTimestamp)
        THEN Fail(L, "drop MUST be expired or empty!")
    ELSE
    LET preMbr == minBalance(L)
        ofDrop == {k \in DOMAIN L.claimedMap : k.TokenDropId = tokenDropId}
        claimKey == IF AddressClaimKey(tokenDropId, claimerAddress) \in ofDrop \/ ofDrop = {}
                    THEN AddressClaimKey(tokenDropId, claimerAddress)
                    ELSE CHOOSE k \in ofDrop : TRUE
        L2 == [L EXCEPT !.claimedMap = BoxDel(@, claimKey)]
    IN sendPayment(L2, receiver, preMbr - minBalance(L2))

\* a variant that takes a drop without a record for a drop that is over
claimClaimerBoxCost_noRecord(L, tokenDropId, claimerAddress, receiver, latestTimestamp) ==
    IF tokenDropId \in DOMAIN L.allDrops
       /\ ~isDropExpiredOrEmpty(L.allDrops[tokenDropId], latestTimestamp)
        THEN Fail(L, "drop MUST be expired or empty!")
    ELSE
    LET preMbr == minBalance(L)
        L2 == [L EXCEPT !.claimedMap = BoxDel(@, AddressClaimKey(tokenDropId, claimerAddress))]
    IN sendPayment(L2, receiver, preMbr - minBalance(L2))

\* a variant that does not ask whether the drop is over
claimClaimerBoxCost_noGuard(L, tokenDropId, claimerAddress, receiver, latestTimestamp) ==
    IF tokenDropId \notin DOMAIN L.allDrops THEN Fail(L, "box not found")
    ELSE
    LET preMbr == minBalance(L)
        L2 == [L EXCEPT !.claimedMap = BoxDel(@, AddressClaimKey(tokenDropId, claimerAddress))]
    IN sendPayment(L2, receiver, preMbr - minBalance(L2))

claimClaimerBoxCost(L, tokenDropId, claimerAddress, receiver, latestTimestamp) ==
    IF tokenDropId \notin DOMAIN L.allDrops THEN Fail(L, "box not found")
    ELSE IF ~isDropExpiredOrEmpty(L.allDrops[tokenDropId], latestTimestamp)
        THEN Fail(L, "drop MUST be expired or empty!")
    ELSE
    LET preMbr == minBalance(L)
        L2 == [L EXCEPT !.claimedMap = BoxDel(@, AddressClaimKey(tokenDropId, claimerAddress))]
    IN sendPayment(L2, receiver, preMbr - minBalance(L2))



(***************************************************************************)
(* The inputs the actions draw from.                                       *)
(***************************************************************************)
\* the accounts that hold the tokens (and so an opt-in) from the start
TokenHolders == {"u1", "u2"}
\* u3 holds an opt-in to the second token only
InitialOptIns == (TokenHolders \X Tokens) \cup {<<"u3", 102>>}
\* ids a call may name: every id that can be assigned, and one that never is
DropIds == 1..(MaxDropId + 1)
\* assets offered as valueToVerify
GateAsset == 7
OtherAsset == 9
NoGatingAssets == <<0, 0, 0, 0>>

Config(token, amountPerClaim, endTime, type, address, assets, minBal) ==
    [Token |-> token,
     AmountPerClaim |-> amountPerClaim,
     AirdropEndTime |-> endTime,
     entryGatingType |-> type,
     entryGatingAddress |-> address,
     entryGatingAssets |-> assets,
     gatingAssetMinBalance |-> minBal]

\* what a createDrop group is made of: the funded amount, the amount per
\* claim, the expiry as an offset from the current time, and the gating
Shape(amount, perClaim, endOffset, type, assets, minBal) ==
    [amount |-> amount, perClaim |-> perClaim, endOffset |-> endOffset, type |-> type,
     assets |-> assets, minBalance |-> minBal]

MinEndOffset == OneDay + 1
MaxEndOffset == OneHour + OneDay * MaxDropDays

\* shapes that pass every check on the arguments
ValidShapes ==
    {Shape(4, 2, MaxEndOffset, GATING_TYPE_NONE, NoGatingAssets, 0),
     Shape(1, 1, MaxEndOffset, GATING_TYPE_ASSET_ID, <<GateAsset, 0, 0, 0>>, 0)}

\* shapes with one argument out of range
FaultyShapes ==
    {Shape(0, 1, MinEndOffset, GATING_TYPE_NONE, NoGatingAssets, 0),
     Shape(2, 0, MinEndOffset, GATING_TYPE_NONE, NoGatingAssets, 0),
     Shape(3, 2, MinEndOffset, GATING_TYPE_NONE, NoGatingAssets, 0),
     Shape(2, 4, MinEndOffset, GATING_TYPE_NONE, NoGatingAssets, 0),
     Shape(2, 1, OneDay, GATING_TYPE_NONE, NoGatingAssets, 0),
     Shape(2, 1, MaxEndOffset + 1, GATING_TYPE_NONE, NoGatingAssets, 0),
     Shape(2, 1, MinEndOffset, GATING_TYPE_CONST_MAX + 1, NoGatingAssets, 0),
     Shape(2, 1, MinEndOffset, GATING_TYPE_NFD_HOLDING_AGE, NoGatingAssets, 0)}

\* payments relative to what the call requires: short, exact, over
PayDeltas == {-1, 0, 1000}

PayTxn(sender, receiver, amount) ==
    [sender |-> sender, receiver |-> receiver, amount |-> amount]

AssetTransferTxn(sender, receiver, xferAsset, amount) ==
    [sender |-> sender, assetReceiver |-> receiver, xferAsset |-> xferAsset,
     assetAmount |-> amount]

\* what a claim reads from outside when the drop is gated by an asset
ExtAsset(balance) ==
    [assetBalance |-> balance, assetCreator |-> ZeroAddress, nfdValid |-> FALSE,
     nfdOwner |-> ZeroAddress, nfdParent |-> 0, majVer |-> "3.", sellamt |-> 0,
     expirationTime |-> 0, twitter |-> "", blueskydid |-> "", timePurchased |-> 0,
     caAlgo |-> <<>>]

\* what a claimant offers: valueToVerify and what the call reads about it
Offer(valueToVerify, ext) == [valueToVerify |-> valueToVerify, ext |-> ext]
CoreOffers ==
    {Offer(0, ExtAsset(0)), Offer(GateAsset, ExtAsset(1)), Offer(GateAsset, ExtAsset(0)),
     Offer(OtherAsset, ExtAsset(1))}

(***************************************************************************)
(* Init: the state after createApplication and the funding of the contract *)
(* account with its base minimum balance.                                  *)
(***************************************************************************)
NoArg == <<>>
Others == Accounts \ {AppAddress}
NoFlow == [algo |-> [a \in Others |-> 0], asset |-> [a \in Others |-> [t \in Tokens |-> 0]]]

\* the record of a successful call; flow: what it moved to every other account
Outcome(op, sender, id, arg, flow) ==
    [op |-> op, sender |-> sender, id |-> id, arg |-> arg, flow |-> flow]

createApplication(maintainer) ==
    [maintainerAddress |-> maintainer,
     totalClaims |-> 0,
     lastDropId |-> 0,
     creationFeeAmount |-> InitialCreationFee,
     perClaimFeeAmount |-> InitialPerClaimFee]

Init ==
    /\ maintainerAddress = createApplication(Maintainer).maintainerAddress
    /\ creationFeeAmount = createApplication(Maintainer).creationFeeAmount
    /\ perClaimFeeAmount = createApplication(Maintainer).perClaimFeeAmount
    /\ totalClaims = createApplication(Maintainer).totalClaims
    /\ lastDropId = createApplication(Maintainer).lastDropId
    /\ allDrops = EmptyBoxMap
    /\ dropForToken = EmptyBoxMap
    /\ claimedMap = EmptyBoxMap
    /\ appAlgo = AccountMinBalance
    /\ appAsset = [t \in Tokens |-> 0]
    /\ optedIn = InitialOptIns
    /\ now = StartTime
    /\ last = Outcome("createApplication", AppCreator, 0, NoArg, NoFlow)
    /\ claimsPaid = {}
    /\ rentPaid = EmptyBoxMap

(***************************************************************************)
(* Actions.                                                                *)
(***************************************************************************)
\* what a ledger holds of the state
StateOf(R) ==
    <<R.maintainerAddress, R.creationFeeAmount, R.perClaimFeeAmount, R.totalClaims,
      R.lastDropId, R.allDrops, R.dropForToken, R.claimedMap, R.algo[AppAddress],
      R.asset[AppAddress], R.optedIn>>

\* the history of the payouts: the tokens of a claim, the rent of a receipt
Recorded(R, op, sender, id, arg) ==
    /\ claimsPaid' = IF op = "claimDrop" THEN claimsPaid \cup {AddressClaimKey(id, sender)}
                     ELSE claimsPaid
    /\ rentPaid' = IF op = "claimClaimerBoxCost"
                   THEN LET k == AddressClaimKey(id, arg.claimerAddress) IN
                        BoxPut(rentPaid, k,
                               (IF k \in DOMAIN rentPaid THEN rentPaid[k] ELSE 0)
                               + R.algo[arg.receiver])
                   ELSE rentPaid

\* a variant that keeps what a handler wrote before one of its asserts failed
Call_keepPartial(R, op, sender, id, arg) ==
    IF StateOf(R) # StateOf(Ledger)
    THEN /\ maintainerAddress' = R.maintainerAddress
         /\ creationFeeAmount' = R.creationFeeAmount
         /\ perClaimFeeAmount' = R.perClaimFeeAmount
         /\ totalClaims' = R.totalClaims
         /\ lastDropId' = R.lastDropId
         /\ allDrops' = R.allDrops
         /\ dropForToken' = R.dropForToken
         /\ claimedMap' = R.claimedMap
         /\ appAlgo' = R.algo[AppAddress]
         /\ appAsset' = R.asset[AppAddress]
         /\ optedIn' = R.optedIn
         /\ last' = Outcome(op, sender, id, arg,
                            [algo |-> [a \in Others |-> R.algo[a]],
                             asset |-> [a \in Others |-> R.asset[a]]])
         /\ Recorded(R, op, sender, id, arg)
         /\ UNCHANGED now
    ELSE UNCHANGED vars

\* the call commits the ledger R its handler computed; a call that fails
\* changes nothing, and last keeps the last call that changed the state
Call(R, op, sender, id, arg) ==
    IF R.ok /\ StateOf(R) # StateOf(Ledger)
    THEN /\ maintainerAddress' = R.maintainerAddress
         /\ creationFeeAmount' = R.creationFeeAmount
         /\ perClaimFeeAmount' = R.perClaimFeeAmount
         /\ totalClaims' = R.totalClaims
         /\ lastDropId' = R.lastDropId
         /\ allDrops' = R.allDrops
         /\ dropForToken' = R.dropForToken
         /\ claimedMap' = R.claimedMap
         /\ appAlgo' = R.algo[AppAddress]
         /\ appAsset' = R.asset[AppAddress]
         /\ optedIn' = R.optedIn
         /\ last' = Outcome(op, sender, id, arg,
                            [algo |-> [a \in Others |-> R.algo[a]],
                             asset |-> [a \in Others |-> R.asset[a]]])
         /\ Recorded(R, op, sender, id, arg)
         /\ UNCHANGED now
    ELSE UNCHANGED vars

UpdateApplication(sender) ==
    Call(updateApplication(Ledger, sender), "updateApplication", sender, 0, NoArg)

ChangeMaintainer(sender, newMaintainer) ==
    Call(changeMaintainer(Ledger, sender, newMaintainer), "changeMaintainer", sender, 0, NoArg)

ChangeFees(sender, creationFee, perClaimFee) ==
    Call(changeFees(Ledger, sender, creationFee, perClaimFee), "changeFees", sender, 0, NoArg)

OptinAsset(sender, amount, assetId) ==
    Call(optinAsset(Ledger, sender, PayTxn(sender, AppAddress, amount), assetId),
         "optinAsset", sender, 0, [assetId |-> assetId])

\* the group of createDrop: the payment and the asset transfer come from
\* assetSender, the call from sender
CreateDrop(sender, assetSender, receiver, xferAsset, token, shape, payDelta, gatingNfdValid) ==
    /\ lastDropId < MaxDropId
    /\ LET pay == PayTxn(assetSender, AppAddress, getDropCreateCost(Ledger) + payDelta)
           axfer == AssetTransferTxn(assetSender, receiver, xferAsset, shape.amount)
           cfg == Config(token, shape.perClaim, now + shape.endOffset, shape.type,
                         ZeroAddress, shape.assets, shape.minBalance)
       IN Call(createDrop(Ledger, sender, pay, axfer, cfg, gatingNfdValid, now),
               "createDrop", sender, lastDropId + 1,
               [assetTxn |-> axfer, config |-> cfg])

CancelDrop(sender, tokenDropId) ==
    Call(cancelDrop(Ledger, sender, tokenDropId, now), "cancelDrop", sender, tokenDropId, NoArg)

CleanupDrop(sender, tokenDropId) ==
    Call(cleanupDrop(Ledger, sender, tokenDropId, now), "cleanupDrop", sender, tokenDropId,
         NoArg)

ClaimDrop(sender, optInAsset, amount, tokenDropId, offer) ==
    Call(claimDrop(Ledger, sender, optInAsset, PayTxn(sender, AppAddress, amount),
                   tokenDropId, offer.valueToVerify, offer.ext, now),
         "claimDrop", sender, tokenDropId,
         [txID |-> TxID(sender, tokenDropId)])

ClaimClaimerBoxCost(sender, tokenDropId, claimerAddress, receiver) ==
    Call(claimClaimerBoxCost(Ledger, tokenDropId, claimerAddress, receiver, now),
         "claimClaimerBoxCost", sender, tokenDropId,
         [claimerAddress |-> claimerAddress, receiver |-> receiver])

\* time passes: to the expiry of a stored drop, or to the second after it
TickTargets ==
    {t \in UNION {{allDrops[d].Config.AirdropEndTime, allDrops[d].Config.AirdropEndTime + 1} :
                     d \in DOMAIN allDrops} : t > now}

Tick(t) ==
    /\ now' = t
    /\ last' = Outcome("tick", "", 0, NoArg, NoFlow)
    /\ UNCHANGED <<ledgerVars, historyVars>>

\* the accounts that fund drops
Creators == {"u1", "u2"}
\* a shape for the calls that test one argument at a time
PlainShape == Shape(4, 2, MaxEndOffset, GATING_TYPE_NONE, NoGatingAssets, 0)

Next ==
    \/ \E sender \in {AppCreator, "u1"} : UpdateApplication(sender)
    \/ \E sender \in {AppCreator, "u1"} : ChangeMaintainer(sender, Maintainer)
    \/ \E sender \in {AppCreator, "u1"},
          creationFee \in {MinCreationFeeExclusive, InitialCreationFee} :
            ChangeFees(sender, creationFee, InitialPerClaimFee)
    \/ \E assetId \in Tokens, amount \in {AssetOptInMinBalance, AssetOptInMinBalance + 1} :
            OptinAsset("u3", amount, assetId)
    \/ CreateDrop("u1", "u1", AppAddress, 101, 101, PlainShape, 0, TRUE)
    \/ \E shape \in ValidShapes :
            CreateDrop("u2", "u2", AppAddress, 102, 102, shape, 0, TRUE)
    \/ \E payDelta \in PayDeltas :
            CreateDrop("u3", "u1", AppAddress, 102, 102, PlainShape, payDelta, TRUE)
    \/ \E shape \in FaultyShapes :
            CreateDrop("u1", "u1", AppAddress, 101, 101, shape, 0, TRUE)
    \/ CreateDrop("u1", "u1", "u3", 101, 101, PlainShape, 0, TRUE)
    \/ CreateDrop("u1", "u1", AppAddress, 102, 101, PlainShape, 0, TRUE)
    \/ \E sender \in Users, tokenDropId \in DropIds : CancelDrop(sender, tokenDropId)
    \/ \E sender \in {"u1", "u3"}, tokenDropId \in DropIds : CleanupDrop(sender, tokenDropId)
    \/ \E sender \in Users, tokenDropId \in DropIds, offer \in CoreOffers :
            ClaimDrop(sender, 0, perClaimFeeAmount, tokenDropId, offer)
    \/ \E tokenDropId \in DropIds,
          amount \in {perClaimFeeAmount - 1, perClaimFeeAmount + 1} :
            ClaimDrop("u2", 0, amount, tokenDropId, Offer(0, ExtAsset(0)))
    \/ \E tokenDropId \in DropIds, claimerAddress \in Users :
            ClaimClaimerBoxCost("u3", tokenDropId, claimerAddress, "u3")
    \/ \E t \in TickTargets : Tick(t)

Spec == Init /\ [][Next]_vars

(***************************************************************************)
(* A second specification for the fee arithmetic: one token, one creator,  *)
(* and an application creator who sets the fees to even and odd amounts    *)
(* and replaces the maintainer.                                            *)
(***************************************************************************)
FeeToken == 102
\* creation fees offered to changeFees: the initial one, the smallest
\* accepted, and the two rejected ones next to it
CreationFees ==
    {InitialCreationFee, MinCreationFeeExclusive + 2, MinCreationFeeExclusive,
     MinCreationFeeExclusive + 1}
\* per-claim fees offered to changeFees: the initial one, the smallest
\* accepted, an odd one, and one too low
PerClaimFees ==
    {InitialPerClaimFee, getPerClaimerMbrCost * 2, getPerClaimerMbrCost * 2 + 1,
     getPerClaimerMbrCost * 2 - 1}
FeePayDeltas == {-1, 0, 1, 1000}

\* pairs of fees offered to changeFees
FeeOffers ==
    {<<InitialCreationFee, InitialPerClaimFee>>,
     <<MinCreationFeeExclusive + 2, getPerClaimerMbrCost * 2>>,
     <<MinCreationFeeExclusive + 2, getPerClaimerMbrCost * 2 + 1>>,
     <<MinCreationFeeExclusive, InitialPerClaimFee>>,
     <<MinCreationFeeExclusive + 1, InitialPerClaimFee>>,
     <<InitialCreationFee, getPerClaimerMbrCost * 2 - 1>>}

NextFees ==
    \/ \E sender \in {AppCreator, "u1", "u3"} : UpdateApplication(sender)
    \/ \E sender \in {AppCreator, "u1", "u3"}, newMaintainer \in {Maintainer, "u3"} :
          ChangeMaintainer(sender, newMaintainer)
    \/ \E sender \in {AppCreator, "u1", "u3"}, fees \in FeeOffers :
          ChangeFees(sender, fees[1], fees[2])
    \/ \E amount \in {AssetOptInMinBalance - 1, AssetOptInMinBalance,
                        AssetOptInMinBalance + 1} :
          OptinAsset("u1", amount, FeeToken)
    \/ \E payDelta \in FeePayDeltas :
          CreateDrop("u1", "u1", AppAddress, FeeToken, FeeToken, PlainShape, payDelta, TRUE)
    \/ \E sender \in {"u1", "u3"}, tokenDropId \in DropIds : CleanupDrop(sender, tokenDropId)
    \/ \E sender \in {"u2", "u3"}, tokenDropId \in DropIds,
           amount \in {perClaimFeeAmount - 1, perClaimFeeAmount, perClaimFeeAmount + 1} :
          ClaimDrop(sender, 0, amount, tokenDropId, Offer(0, ExtAsset(0)))
    \/ \E t \in TickTargets : Tick(t)

SpecFees == Init /\ [][NextFees]_vars

(***************************************************************************)
(* A third specification for the entry gating: one token, one creator,     *)
(* drops of every gating type, and claimants who offer assets and NFDs of  *)
(* every kind.                                                             *)
(***************************************************************************)
\* the app id of the NFD a drop is configured with
GateRoot == 55
\* another NFD app id
OtherRoot == 56
\* the account that created the gating assets
Issuer == "u3"

\* the gating part of a TokenDropConfig
Gate(type, address, assets, minBal) ==
    [type |-> type, address |-> address, assets |-> assets, minBalance |-> minBal]

\* gatings createDrop is called with: every type, and the rejected ones
Gates ==
    {Gate(GATING_TYPE_NONE, ZeroAddress, NoGatingAssets, 0),
     Gate(GATING_TYPE_ASSETS_CREATED_BY, Issuer, NoGatingAssets, 0),
     Gate(GATING_TYPE_ASSETS_CREATED_BY, Issuer, NoGatingAssets, 2),
     Gate(GATING_TYPE_ASSET_ID, ZeroAddress, <<GateAsset, 0, 0, 0>>, 0),
     Gate(GATING_TYPE_ASSET_ID, ZeroAddress, <<OtherAsset, 0, 0, GateAsset>>, 2),
     Gate(GATING_TYPE_CREATED_BY_NFD_ADDRESSES, ZeroAddress, <<GateRoot, 0, 0, 0>>, 0),
     Gate(GATING_TYPE_SEGMENT_OF_NFD, ZeroAddress, <<GateRoot, 0, 0, 0>>, 0),
     Gate(GATING_TYPE_NFD_W_VERIFIED_TWITTER, ZeroAddress, NoGatingAssets, 0),
     Gate(GATING_TYPE_NFD_W_VERIFIED_BLUESKY, ZeroAddress, NoGatingAssets, 0),
     Gate(GATING_TYPE_NFD_HOLDING_AGE, ZeroAddress, NoGatingAssets, 0),
     Gate(GATING_TYPE_NFD_HOLDING_AGE, ZeroAddress, NoGatingAssets, 1),
     Gate(GATING_TYPE_NFD_HOLDING_AGE, ZeroAddress, NoGatingAssets, 2),
     Gate(GATING_TYPE_CONST_MAX + 1, ZeroAddress, NoGatingAssets, 0)}

\* a createDrop of 4 tokens, 2 per claim, with the given gating
GatedCreateCall(gate, gatingNfdValid) ==
    createDrop(Ledger, "u1",
               PayTxn("u1", AppAddress, getDropCreateCost(Ledger)),
               AssetTransferTxn("u1", AppAddress, FeeToken, 4),
               Config(FeeToken, 2, now + MaxEndOffset, gate.type, gate.address,
                      gate.assets, gate.minBalance),
               gatingNfdValid, now)

CreateGatedDrop(gate, gatingNfdValid) ==
    /\ lastDropId < MaxDropId
    /\ Call(GatedCreateCall(gate, gatingNfdValid), "createDrop", "u1", lastDropId + 1,
            [assetTxn |-> AssetTransferTxn("u1", AppAddress, FeeToken, 4),
             config |-> Config(FeeToken, 2, now + MaxEndOffset, gate.type, gate.address,
                               gate.assets, gate.minBalance)])

\* what a claim reads about an offered asset: the claimant's balance of it,
\* its creator, and the address list of the NFD the drop is configured with
ExtOf(balance, creator, caAlgo) ==
    [ExtAsset(balance) EXCEPT !.assetCreator = creator, !.caAlgo = caAlgo]

\* what a claim reads about an offered NFD
ExtNfd(valid, owner, parent, majVer, sellamt, expirationTime, twitter, blueskydid, timePurchased, caAlgo) ==
    [assetBalance |-> 0, assetCreator |-> ZeroAddress, nfdValid |-> valid,
     nfdOwner |-> owner, nfdParent |-> parent, majVer |-> majVer, sellamt |-> sellamt,
     expirationTime |-> expirationTime, twitter |-> twitter, blueskydid |-> blueskydid,
     timePurchased |-> timePurchased, caAlgo |-> caAlgo]

\* an NFD that passes every check for its owner: a valid V3 segment of
\* GateRoot, not for sale, never expiring, with both handles, bought a day ago
GoodNfd(owner) ==
    ExtNfd(TRUE, owner, GateRoot, "3.", 0, 0, "@handle", "did:plc:x", now - OneDay, <<>>)

\* the offers of the claims of this specification: assets held or not, by
\* the right creator or not, and NFDs with one field off
GatingOffers(sender) ==
    {Offer(0, ExtAsset(0)),
     Offer(GateAsset, ExtOf(0, Issuer, <<Issuer>>)),
     Offer(GateAsset, ExtOf(1, Issuer, <<ZeroAddress, Issuer>>)),
     Offer(GateAsset, ExtOf(2, Issuer, <<Issuer>>)),
     Offer(GateAsset, ExtOf(2, "u1", <<Issuer>>)),
     Offer(GateAsset, ExtOf(2, ZeroAddress, <<ZeroAddress>>)),
     Offer(OtherAsset, ExtOf(2, Issuer, <<>>)),
     Offer(GateRoot + 2, GoodNfd(sender)),
     Offer(GateRoot + 2, [GoodNfd(sender) EXCEPT !.nfdValid = FALSE]),
     Offer(GateRoot + 2, [GoodNfd("u1") EXCEPT !.caAlgo = <<sender>>]),
     Offer(GateRoot + 2, GoodNfd("u1")),
     Offer(GateRoot + 2, [GoodNfd(sender) EXCEPT !.nfdParent = OtherRoot]),
     Offer(GateRoot + 2, [GoodNfd(sender) EXCEPT !.majVer = "2."]),
     Offer(GateRoot + 2, [GoodNfd(sender) EXCEPT !.sellamt = 5]),
     Offer(GateRoot + 2, [GoodNfd(sender) EXCEPT !.expirationTime = now - 1]),
     Offer(GateRoot + 2, [GoodNfd(sender) EXCEPT !.expirationTime = now]),
     Offer(GateRoot + 2, [GoodNfd(sender) EXCEPT !.twitter = ""]),
     Offer(GateRoot + 2, [GoodNfd(sender) EXCEPT !.blueskydid = ""]),
     Offer(GateRoot + 2, [GoodNfd(sender) EXCEPT !.timePurchased = now - OneDay + 1]),
     Offer(GateRoot + 2, [GoodNfd(sender) EXCEPT !.timePurchased = now - 2 * OneDay])}

NextGating ==
    \/ OptinAsset("u1", AssetOptInMinBalance, FeeToken)
    \/ \E gate \in Gates, gatingNfdValid \in BOOLEAN : CreateGatedDrop(gate, gatingNfdValid)
    \/ \E tokenDropId \in DropIds : CleanupDrop("u1", tokenDropId)
    \/ \E sender \in {"u2", "u3"}, tokenDropId \in DropIds :
          \E offer \in GatingOffers(sender) :
              ClaimDrop(sender, 0, perClaimFeeAmount, tokenDropId, offer)
    \/ \E t \in TickTargets : Tick(t)

SpecGating == Init /\ [][NextGating]_vars

(***************************************************************************)
(* Properties.  A property about what a call does in a state is written    *)
(* over the handler applied to the current ledger, for every input of the  *)
(* sets below; a property about a step is written over the step.           *)
(***************************************************************************)
(***************************************************************************)
(* A fourth specification, for the life of the drops of one token: two     *)
(* accounts fund drops of it one after the other, paying the cost exactly  *)
(* or one microAlgo less, two accounts claim, and receipts are reclaimed   *)
(* for accounts that claimed and for accounts that did not.                *)
(***************************************************************************)
NextDrop ==
    \/ OptinAsset("u3", AssetOptInMinBalance, FeeToken)
    \/ \E assetSender \in Creators, payDelta \in {-1, 0} :
          CreateDrop(assetSender, assetSender, AppAddress, FeeToken, FeeToken, PlainShape,
                     payDelta, TRUE)
    \/ \E sender \in Creators, tokenDropId \in DropIds : CancelDrop(sender, tokenDropId)
    \/ \E sender \in {"u1", "u3"}, tokenDropId \in DropIds : CleanupDrop(sender, tokenDropId)
    \/ \E sender \in {"u2", "u3"}, tokenDropId \in DropIds :
          ClaimDrop(sender, 0, perClaimFeeAmount, tokenDropId, Offer(0, ExtAsset(0)))
    \/ \E tokenDropId \in DropIds, claimerAddress \in {"u2", "u3"}, receiver \in {"u1", "u3"} :
          ClaimClaimerBoxCost("u3", tokenDropId, claimerAddress, receiver)
    \/ \E t \in TickTargets : Tick(t)

SpecDrop == Init /\ [][NextDrop]_vars

(***************************************************************************)
(* A fifth specification for the accounts the contract sends tokens to:    *)
(* one token, one creator, and accounts that close and reopen their        *)
(* holding of the token between the calls.  An asset transfer to an        *)
(* account without a holding fails, the inner ones of the contract too.    *)
(***************************************************************************)
\* an account closes its holding of a token (an asset transfer of its own,
\* with assetCloseTo set)
AssetCloseOut(account, token) ==
    /\ <<account, token>> \in optedIn
    /\ optedIn' = optedIn \ {<<account, token>>}
    /\ last' = Outcome("assetCloseOut", account, 0, [assetId |-> token], NoFlow)
    /\ UNCHANGED <<maintainerAddress, creationFeeAmount, perClaimFeeAmount, totalClaims,
                   lastDropId, allDrops, dropForToken, claimedMap, appAlgo, appAsset, now,
                   historyVars>>

\* an account opts in to a token (an asset transfer of 0 to itself)
AssetOptIn(account, token) ==
    /\ <<account, token>> \notin optedIn
    /\ optedIn' = optedIn \cup {<<account, token>>}
    /\ last' = Outcome("assetOptIn", account, 0, [assetId |-> token], NoFlow)
    /\ UNCHANGED <<maintainerAddress, creationFeeAmount, perClaimFeeAmount, totalClaims,
                   lastDropId, allDrops, dropForToken, claimedMap, appAlgo, appAsset, now,
                   historyVars>>

\* tokens the contract may be sent outside of a createDrop
MaxDonated == 1

\* an account sends the contract one unit of a token it holds; the transfer
\* needs the holding of the contract, not its consent
AssetSend(account, token) ==
    /\ <<account, token>> \in optedIn
    /\ <<AppAddress, token>> \in optedIn
    /\ appAsset[token] - (IF token \in DOMAIN dropForToken
                          THEN allDrops[dropForToken[token]].AmountRemaining ELSE 0)
          < MaxDonated
    /\ appAsset' = [appAsset EXCEPT ![token] = @ + 1]
    /\ last' = Outcome("assetSend", account, 0, [assetId |-> token], NoFlow)
    /\ UNCHANGED <<maintainerAddress, creationFeeAmount, perClaimFeeAmount, totalClaims,
                   lastDropId, allDrops, dropForToken, claimedMap, appAlgo, optedIn, now,
                   historyVars>>

NextHoldings ==
    \/ OptinAsset("u1", AssetOptInMinBalance, FeeToken)
    \/ CreateDrop("u1", "u1", AppAddress, FeeToken, FeeToken, PlainShape, 0, TRUE)
    \/ \E account \in {"u1", "u2"} : AssetCloseOut(account, FeeToken)
    \/ \E account \in {"u1", "u2"} : AssetOptIn(account, FeeToken)
    \/ AssetSend("u2", FeeToken)
    \/ \E tokenDropId \in DropIds : CancelDrop("u1", tokenDropId)
    \/ \E sender \in {"u1", "u3"}, tokenDropId \in DropIds : CleanupDrop(sender, tokenDropId)
    \/ \E sender \in {"u2", "u3"}, tokenDropId \in DropIds :
          ClaimDrop(sender, 0, perClaimFeeAmount, tokenDropId, Offer(0, ExtAsset(0)))
    \/ \E tokenDropId \in DropIds, claimerAddress \in {"u2", "u3"} :
          ClaimClaimerBoxCost("u3", tokenDropId, claimerAddress, "u3")
    \/ \E t \in TickTargets : Tick(t)

SpecHoldings == Init /\ [][NextHoldings]_vars

Stored == DOMAIN allDrops
Receipt(tokenDropId, address) == AddressClaimKey(tokenDropId, address) \in DOMAIN claimedMap
\* rent of the two registry boxes of one drop
RegistryRent ==
    costForBoxStorage(LenPrefixD + LenUint64 + LenTokenDropInfo)
    + costForBoxStorage(LenPrefixTok + LenUint64 + LenUint64)

\* a claim call in the current state, the payment made by the claimant
ClaimCall(sender, optInAsset, amount, tokenDropId, offer) ==
    claimDrop(Ledger, sender, optInAsset, PayTxn(sender, AppAddress, amount), tokenDropId,
              offer.valueToVerify, offer.ext, now)

\* a createDrop call in the current state, funded and paid by assetSender
CreateCall(sender, assetSender, token, shape, payDelta) ==
    createDrop(Ledger, sender,
               PayTxn(assetSender, AppAddress, getDropCreateCost(Ledger) + payDelta),
               AssetTransferTxn(assetSender, AppAddress, token, shape.amount),
               Config(token, shape.perClaim, now + shape.endOffset, shape.type,
                      ZeroAddress, shape.assets, shape.minBalance),
               TRUE, now)

\* the step is a successful call of the method
Stepped(op) == last'.op = op /\ last' # last

\* C1: once the receipt of account a for drop d exists, no claimDrop of a on d
\* succeeds, whatever it offers, pays or opts in to: the call fails, and a
\* failed call leaves AmountRemaining, NumClaims, totalClaims, the receipt and
\* every balance as they were.
C1_NoSecondClaim ==
    \A a \in Users, d \in DropIds :
        Receipt(d, a) =>
            \A offer \in CoreOffers, optInAsset \in Tokens \cup {0},
               amount \in {perClaimFeeAmount, perClaimFeeAmount + 1} :
                ~ClaimCall(a, optInAsset, amount, d, offer).ok

\* a has claimed from d, d still has tokens and time, and the next claim of a
\* is turned down for the receipt
C1_Witness ==
    \E a \in Users, d \in Stored :
        /\ Receipt(d, a)
        /\ ~isDropExpiredOrEmpty(allDrops[d], now)
        /\ ClaimCall(a, 0, perClaimFeeAmount, d, Offer(GateAsset, ExtAsset(1))).err
               = "already claimed"

\* C2: every stored drop has AmountRemaining = (MaxClaims - NumClaims) *
\* Config.AmountPerClaim.
C2_RemainingMatchesClaims ==
    \A d \in Stored :
        allDrops[d].AmountRemaining
            = (allDrops[d].MaxClaims - allDrops[d].NumClaims) * allDrops[d].Config.AmountPerClaim

\* a drop of more than one token per claim, partly claimed
C2_Witness ==
    \E d \in Stored :
        /\ allDrops[d].NumClaims = 1
        /\ allDrops[d].AmountRemaining > 0
        /\ allDrops[d].Config.AmountPerClaim > 1
        /\ last.op = "claimDrop" /\ last.id = d

\* C3: dropForToken has an entry for T exactly when one stored drop has
\* Config.Token = T, the entry holds the id of that drop, no two stored drops
\* share a token; and a step removes or replaces the entry of T exactly when
\* it deletes the drop record the entry references.
C3_IndexState ==
    \A t \in Tokens :
        LET of == {d \in Stored : allDrops[d].Config.Token = t} IN
        /\ Cardinality(of) <= 1
        /\ t \in DOMAIN dropForToken <=> Cardinality(of) = 1
        /\ t \in DOMAIN dropForToken => dropForToken[t] \in of

C3_IndexStep ==
    \A t \in DOMAIN dropForToken :
        (t \notin DOMAIN dropForToken' \/ dropForToken'[t] # dropForToken[t])
            <=> dropForToken[t] \notin DOMAIN allDrops'

C3_IndexMatchesRegistry == []C3_IndexState /\ [][C3_IndexStep]_vars

\* one drop has been deleted with its entry while the drop of the other
\* token and its entry stay
C3_Witness ==
    /\ last.op \in {"cancelDrop", "cleanupDrop"}
    /\ last.id \notin Stored
    /\ Cardinality(DOMAIN dropForToken) = 1
    /\ Cardinality(Stored) = 1

\* C4: while the stored drop of token T is neither expired nor empty, every
\* createDrop for T fails, whoever calls and whoever funds it, the creator of
\* the stored drop included; the failed call changes nothing.
C4_OneLiveDropPerToken ==
    \A t \in DOMAIN dropForToken :
        ~isDropExpiredOrEmpty(allDrops[dropForToken[t]], now) =>
            \A sender \in Users, assetSender \in Users, shape \in ValidShapes,
               payDelta \in {0, 1000} :
                ~CreateCall(sender, assetSender, t, shape, payDelta).ok

\* the creator of a live drop asks for a second drop of the token and is
\* turned down for the live one
C4_Witness ==
    \E t \in DOMAIN dropForToken :
        LET c == allDrops[dropForToken[t]].DropCreator IN
        /\ allDrops[dropForToken[t]].NumClaims > 0
        /\ CreateCall(c, c, t, PlainShape, 0).err
               = "existing drop must be expired or have no remaining tokens"

C6_NewDropRecord ==
    /\ last.op = "createDrop" =>
          LET F == last.arg.assetTxn.assetAmount
              A == last.arg.config.AmountPerClaim
          IN /\ F > 0 /\ A > 0 /\ F % A = 0
             /\ lastDropId \in Stored
             /\ allDrops[lastDropId].MaxClaims * A = F
             /\ allDrops[lastDropId].AmountRemaining = F
             /\ allDrops[lastDropId].NumClaims = 0
             /\ allDrops[lastDropId].DropCreator = last.arg.assetTxn.sender
             /\ allDrops[lastDropId].DropId = lastDropId
             /\ allDrops[lastDropId].Config = last.arg.config
    /\ \A sender \in Users, assetSender \in Users, t \in Tokens, shape \in FaultyShapes :
          (shape.perClaim = 0 \/ shape.perClaim > shape.amount
              \/ shape.amount % shape.perClaim # 0)
            => ~CreateCall(sender, assetSender, t, shape, 0).ok

\* a drop of two claims has just been created by a caller who is not the
\* sender of the asset transfer
C6_Witness ==
    /\ last.op = "createDrop"
    /\ last.sender # last.arg.assetTxn.sender
    /\ allDrops[lastDropId].MaxClaims = 2
    /\ allDrops[lastDropId].DropCreator = last.arg.assetTxn.sender

\* C7: lastDropId starts at 0; a step raises it by one exactly when it is a
\* successful createDrop, whose drop takes the new value as id, and no other
\* step changes it; an id is never given twice; every stored drop has
\* 1 <= DropId <= lastDropId and is stored under its DropId.
C7_IdState ==
    \A d \in Stored : 1 <= d /\ d <= lastDropId /\ allDrops[d].DropId = d

C7_IdStep ==
    /\ Stepped("createDrop") <=> lastDropId' = lastDropId + 1
    /\ ~Stepped("createDrop") => lastDropId' = lastDropId
    /\ Stepped("createDrop") => last'.id = lastDropId' /\ lastDropId' \in DOMAIN allDrops'
    /\ \A d \in DOMAIN allDrops' \ DOMAIN allDrops : d > lastDropId

C7_IdsNeverReused == (lastDropId = 0) /\ []C7_IdState /\ [][C7_IdStep]_vars

\* the first drop is gone and the second creation got id 2
C7_Witness ==
    /\ last.op = "createDrop"
    /\ lastDropId = 2
    /\ Stored = {2}

\* C8: claimDrop fails, changing nothing, when the drop is not stored, the
\* sender is its creator, the claimant holds no opt-in to the token,
\* AmountRemaining is 0, or now > AirdropEndTime; at now = AirdropEndTime a
\* claim on a drop that has tokens is accepted when nothing else is wrong.
C8_ClaimGuards ==
    \A a \in Users, d \in DropIds, offer \in CoreOffers :
        LET R == ClaimCall(a, 0, perClaimFeeAmount, d, offer) IN
        IF d \notin Stored THEN ~R.ok
        ELSE LET dropInfo == allDrops[d] IN
             /\ (a = dropInfo.DropCreator
                    \/ <<a, dropInfo.Config.Token>> \notin optedIn
                    \/ dropInfo.AmountRemaining = 0
                    \/ now > dropInfo.Config.AirdropEndTime) => ~R.ok
             /\ (/\ now = dropInfo.Config.AirdropEndTime
                 /\ dropInfo.AmountRemaining > 0
                 /\ a # dropInfo.DropCreator
                 /\ <<a, dropInfo.Config.Token>> \in optedIn
                 /\ ~Receipt(d, a)
                 /\ doesClaimAccountMeetGating(dropInfo.Config, a, offer.valueToVerify,
                                               offer.ext, now) = "") => R.ok

\* a claim has just succeeded in the very second of the deadline, while in
\* the same state the creator and an account without opt-in are turned down
C8_Witness ==
    /\ last.op = "claimDrop"
    /\ last.id \in Stored
    /\ now = allDrops[last.id].Config.AirdropEndTime
    /\ \E d \in Stored :
          ClaimCall(allDrops[d].DropCreator, 0, perClaimFeeAmount, d,
                    Offer(GateAsset, ExtAsset(1))).err = "drop creator cannot claim"

\* C9: a successful claimDrop of a on d creates the receipt (d, a) holding the
\* id of the claim transaction, adds 1 to totalClaims, takes AmountPerClaim
\* from AmountRemaining, adds 1 to NumClaims and moves exactly AmountPerClaim
\* tokens from the contract to a; Config, MaxClaims, DropCreator and DropId of
\* d, every other drop, every other receipt and the token index stay; a
\* receipt appears in no other step.
C9_ClaimStep ==
    /\ Stepped("claimDrop") =>
          LET a == last'.sender
              d == last'.id
              key == AddressClaimKey(d, a)
          IN /\ d \in Stored
             /\ key \notin DOMAIN claimedMap
             /\ claimedMap' = BoxPut(claimedMap, key, [TxnId |-> last'.arg.txID])
             /\ last'.arg.txID = TxID(a, d)
             /\ totalClaims' = totalClaims + 1
             /\ allDrops' =
                  [allDrops EXCEPT
                      ![d].AmountRemaining = @ - allDrops[d].Config.AmountPerClaim,
                      ![d].NumClaims = @ + 1]
             /\ dropForToken' = dropForToken
             /\ lastDropId' = lastDropId
             /\ \A t \in Tokens, u \in Users :
                   last'.flow.asset[u][t]
                      = IF u = a /\ t = allDrops[d].Config.Token
                        THEN allDrops[d].Config.AmountPerClaim ELSE 0
             /\ \A t \in Tokens :
                   appAsset'[t] = appAsset[t]
                      - (IF t = allDrops[d].Config.Token
                         THEN allDrops[d].Config.AmountPerClaim ELSE 0)
    /\ DOMAIN claimedMap' \ DOMAIN claimedMap # {} => Stepped("claimDrop")

C9_ClaimEffect == [][C9_ClaimStep]_vars

\* a claim has just succeeded while the drop of the other token and a
\* receipt of another claim exist
C9_Witness ==
    /\ last.op = "claimDrop"
    /\ Cardinality(Stored) = 2
    /\ Cardinality(DOMAIN claimedMap) >= 2
    /\ \E d \in Stored \ {last.id} : allDrops[d].NumClaims > 0

C11_CleanupState ==
    \A sender \in Users, d \in Stored :
        LET R == cleanupDrop(Ledger, sender, d, now) IN
        /\ (sender # allDrops[d].DropCreator /\ ~isDropExpiredOrEmpty(allDrops[d], now))
              => ~R.ok
        /\ sender = allDrops[d].DropCreator
              => R.ok /\ R = cancelDrop(Ledger, sender, d, now)

C11_CleanupStep ==
    \A d \in Stored \ DOMAIN allDrops' :
        ~isDropExpiredOrEmpty(allDrops[d], now) =>
            /\ last'.op \in {"cancelDrop", "cleanupDrop"}
            /\ last'.sender = allDrops[d].DropCreator

minBalanceNext ==
    minBalance([optedIn |-> optedIn', allDrops |-> allDrops',
                dropForToken |-> dropForToken', claimedMap |-> claimedMap'])

\* C12: every step that removes a drop d is a cancelDrop, a cleanupDrop or a
\* createDrop for d's token; it moves exactly d.AmountRemaining tokens to
\* d.DropCreator (none when it is 0), deletes d's record and its index entry
\* (createDrop installs the entry of the new drop), and pays d.DropCreator
\* exactly the decrease of the contract's minimum balance; the contract's
\* balances are the prior ones minus these refunds (plus, in createDrop, what
\* the group paid in), and nothing else of the registry changes.
C12_TeardownStep ==
    \A d \in Stored \ DOMAIN allDrops' :
        LET c == allDrops[d].DropCreator
            t == allDrops[d].Config.Token
            rem == allDrops[d].AmountRemaining
        IN
        /\ last'.op \in {"cancelDrop", "cleanupDrop", "createDrop"}
        /\ claimedMap' = claimedMap /\ totalClaims' = totalClaims
        /\ last'.op \in {"cancelDrop", "cleanupDrop"} =>
              LET refund == minBalance(Ledger) - minBalanceNext IN
              /\ last'.id = d
              /\ allDrops' = BoxDel(allDrops, d)
              /\ dropForToken' = BoxDel(dropForToken, t)
              /\ lastDropId' = lastDropId
              /\ \A a \in Others, x \in Tokens :
                    last'.flow.asset[a][x] = IF a = c /\ x = t THEN rem ELSE 0
              /\ \A a \in Others : last'.flow.algo[a] = IF a = c THEN refund ELSE 0
              /\ refund >= RegistryRent
              /\ appAlgo' = appAlgo - refund
              /\ appAsset' = [appAsset EXCEPT ![t] = @ - rem]
        /\ last'.op = "createDrop" =>
              LET funder == last'.arg.assetTxn.sender
                  F == last'.arg.assetTxn.assetAmount
              IN /\ last'.arg.config.Token = t
                 /\ DOMAIN allDrops' = (Stored \ {d}) \cup {lastDropId'}
                 /\ \A o \in Stored \ {d} : allDrops'[o] = allDrops[o]
                 /\ dropForToken' = [dropForToken EXCEPT ![t] = lastDropId']
                 /\ last'.flow.asset[c][t] = rem - (IF funder = c THEN F ELSE 0)
                 /\ last'.flow.algo[c]
                      = RegistryRent - (IF funder = c THEN getDropCreateCost(Ledger) ELSE 0)
                 /\ appAlgo' = appAlgo
                 /\ appAsset' = [appAsset EXCEPT ![t] = @ - rem + F]

C12_TeardownRefunds == [][C12_TeardownStep]_vars

\* a drop with tokens left has just been torn down by an outsider after its
\* end: its creator got the tokens, the rent of the two boxes and the rent of
\* the closed asset holding
C12_Witness ==
    /\ last.op = "cleanupDrop"
    /\ last.id \notin Stored
    /\ \E c \in Users \ {last.sender}, t \in Tokens :
          /\ last.flow.asset[c][t] > 0
          /\ last.flow.algo[c] = RegistryRent + AssetOptInMinBalance
          /\ <<AppAddress, t>> \notin optedIn

\* C13: claimClaimerBoxCost(d, a, r) fails while d is stored and neither
\* expired nor empty; once d is stored and expired or empty it succeeds
\* (the handler never looks at the caller), the receipt (d, a) is gone
\* afterwards, r is paid exactly the rent of one receipt when the receipt
\* existed and nobody else is paid, and nothing else changes.
C13_ReclaimState ==
    \A d \in Stored, a \in Users, r \in Users :
        LET R == claimClaimerBoxCost(Ledger, d, a, r, now) IN
        IF ~isDropExpiredOrEmpty(allDrops[d], now)
        THEN ~R.ok
        ELSE /\ R.ok
             /\ R.claimedMap = BoxDel(claimedMap, AddressClaimKey(d, a))
             /\ R.allDrops = allDrops /\ R.dropForToken = dropForToken
             /\ R.totalClaims = totalClaims /\ R.asset = Ledger.asset
             /\ \A o \in Others :
                   R.algo[o] = IF o = r /\ Receipt(d, a) THEN getPerClaimerMbrCost ELSE 0
             /\ R.algo[AppAddress]
                   = appAlgo - (IF Receipt(d, a) THEN getPerClaimerMbrCost ELSE 0)

\* a step that removes a receipt is a claimClaimerBoxCost on a stored drop that
\* was expired or empty
C13_ReclaimStep ==
    \A k \in DOMAIN claimedMap \ DOMAIN claimedMap' :
        /\ last'.op = "claimClaimerBoxCost"
        /\ last'.id = k.TokenDropId /\ last'.arg.claimerAddress = k.Address
        /\ k.TokenDropId \in Stored
        /\ isDropExpiredOrEmpty(allDrops[k.TokenDropId], now)
        /\ last'.flow.algo[last'.arg.receiver] = getPerClaimerMbrCost

C13_ReceiptRentReclaim == []C13_ReclaimState /\ [][C13_ReclaimStep]_vars

\* the rent of a receipt has just been paid out to a third account, while
\* another stored drop with a receipt is still live and refuses the same call
C13_Witness ==
    /\ last.op = "claimClaimerBoxCost"
    /\ last.id \in Stored
    /\ last.arg.receiver # last.arg.claimerAddress
    /\ last.flow.algo[last.arg.receiver] = getPerClaimerMbrCost
    /\ ~Receipt(last.id, last.arg.claimerAddress)
    /\ \E d \in Stored, a \in Users :
          /\ Receipt(d, a)
          /\ ~claimClaimerBoxCost(Ledger, d, a, "u3", now).ok

\* end times tried around the two ends of the window, as offsets from now
EndOffsetProbes == {0, OneDay - 1, OneDay, MinEndOffset, MaxEndOffset, MaxEndOffset + 1}
InWindow(endOffset) == OneDay < endOffset /\ endOffset <= OneHour + OneDay * MaxDropDays

\* C14: a createDrop succeeds only with now + 86400 < AirdropEndTime <=
\* now + 7 * 86400 + 3600: a call that succeeds with an end time at the upper
\* end of the window succeeds with exactly the end times inside the window,
\* and fails with its own message at now + 86400 or earlier and beyond the
\* upper end.
C14_WindowState ==
    \A assetSender \in Creators, token \in Tokens, off \in EndOffsetProbes :
        LET R == CreateCall(assetSender, assetSender, token,
                            Shape(4, 2, off, GATING_TYPE_NONE, NoGatingAssets, 0), 0)
            Rmax == CreateCall(assetSender, assetSender, token,
                               Shape(4, 2, MaxEndOffset, GATING_TYPE_NONE, NoGatingAssets, 0), 0)
        IN /\ R.ok <=> (Rmax.ok /\ InWindow(off))
           /\ (<<AppAddress, token>> \in optedIn /\ off <= OneDay)
                 => R.err = "airdrop end time must be at least 1 day into the future"
           /\ (<<AppAddress, token>> \in optedIn /\ off > MaxEndOffset)
                 => R.err = "airdrop can't last more than 1 week"

\* every drop enters the registry with an end time inside the window of the
\* moment of its creation, and its end time never changes afterwards
C14_WindowStep ==
    /\ \A d \in DOMAIN allDrops' \ Stored :
          /\ last'.op = "createDrop"
          /\ allDrops'[d].Config.AirdropEndTime > now + OneDay
          /\ allDrops'[d].Config.AirdropEndTime <= now + OneDay * MaxDropDays + OneHour
    /\ \A d \in DOMAIN allDrops' \cap Stored :
          allDrops'[d].Config.AirdropEndTime = allDrops[d].Config.AirdropEndTime

C14_ExpiryWindow == []C14_WindowState /\ [][C14_WindowStep]_vars

\* a drop has just been created with the latest end time allowed, and in the
\* state reached a createDrop for the other token passes at now + 86401 and
\* is refused at now + 86400
C14_Witness ==
    /\ last.op = "createDrop"
    /\ allDrops[last.id].Config.AirdropEndTime = now + MaxEndOffset
    /\ \E token \in Tokens :
          /\ CreateCall("u2", "u2", token,
                        Shape(4, 2, MinEndOffset, GATING_TYPE_NONE, NoGatingAssets, 0), 0).ok
          /\ ~CreateCall("u2", "u2", token,
                         Shape(4, 2, OneDay, GATING_TYPE_NONE, NoGatingAssets, 0), 0).ok

\* C15: on every successful claimDrop with fee f and receipt rent m the
\* claimant pays f, the maintainer receives floor(f / 2), the fee sink
\* receives f - floor(f / 2) - m, which is never negative, the contract's
\* ALGO balance grows by exactly m, and the three shares add up to f, for
\* even and for odd f (an account that has two of the roles gets the sum).
C15_FeeSplitStep ==
    Stepped("claimDrop") =>
        LET f == perClaimFeeAmount
            m == getPerClaimerMbrCost
            toMaintainer == f \div 2
            toSink == f - toMaintainer - m
        IN /\ toSink >= 0
           /\ toMaintainer + toSink + m = f
           /\ \A a \in Others :
                 last'.flow.algo[a]
                    = (IF a = maintainerAddress THEN toMaintainer ELSE 0)
                      + (IF a = FeeSink THEN toSink ELSE 0)
                      - (IF a = last'.sender THEN f ELSE 0)
           /\ appAlgo' = appAlgo + m
           /\ perClaimFeeAmount' = f /\ maintainerAddress' = maintainerAddress

C16_PaymentState ==
    \A token \in Tokens :
        LET R0 == CreateCall("u1", "u1", token, PlainShape, 0) IN
        /\ getDropCreateCost(Ledger) = creationFeeAmount + RegistryRent
        /\ \A payDelta \in FeePayDeltas :
              LET R == CreateCall("u1", "u1", token, PlainShape, payDelta) IN
              /\ R.ok <=> (R0.ok /\ payDelta >= 0)
              /\ R.ok => /\ StateOf(R) = StateOf(R0)
                         /\ R.algo = R0.algo
              /\ (payDelta < 0 /\ R0.ok) => R.err = "must pay at least MBR costs"

\* on every successful createDrop the payer is out of pocket by exactly C,
\* the maintainer and the fee sink receive creationFee / 2 each and
\* creationFee together, and the contract retains the rent of the two new
\* records (a superseded drop's creator is paid the rent its records free)
C16_PaymentStep ==
    Stepped("createDrop") =>
        LET t == last'.arg.config.Token
            payer == last'.arg.assetTxn.sender
            supersedes == t \in DOMAIN dropForToken
            freed(a) == IF supersedes /\ a = allDrops[dropForToken[t]].DropCreator
                        THEN RegistryRent ELSE 0
            half == creationFeeAmount \div 2
        IN /\ half + half = creationFeeAmount
           /\ \A a \in Others :
                 last'.flow.algo[a]
                    = (IF a = maintainerAddress THEN half ELSE 0)
                      + (IF a = FeeSink THEN half ELSE 0)
                      + freed(a)
                      - (IF a = payer THEN getDropCreateCost(Ledger) ELSE 0)
           /\ appAlgo' = appAlgo + RegistryRent - (IF supersedes THEN RegistryRent ELSE 0)
           /\ minBalanceNext = minBalance(Ledger) + RegistryRent
                                 - (IF supersedes THEN RegistryRent ELSE 0)

C17_OverpaymentAccepted ==
    /\ \A sender \in Users, assetId \in Tokens, extra \in {1, 1000} :
          LET R0 == optinAsset(Ledger, sender,
                               PayTxn(sender, AppAddress, AssetOptInMinBalance), assetId)
              R == optinAsset(Ledger, sender,
                              PayTxn(sender, AppAddress, AssetOptInMinBalance + extra), assetId)
          IN R0.ok => R.ok /\ R.algo[sender] = R0.algo[sender]
    /\ \A sender \in Users, tokenDropId \in DropIds, offer \in CoreOffers, extra \in {1, 1000} :
          LET R0 == ClaimCall(sender, 0, perClaimFeeAmount, tokenDropId, offer)
              R == ClaimCall(sender, 0, perClaimFeeAmount + extra, tokenDropId, offer)
          IN R0.ok => R.ok /\ R.algo[sender] = R0.algo[sender]
    /\ \A assetSender \in Creators, token \in Tokens, extra \in {1, 1000} :
          LET R0 == CreateCall(assetSender, assetSender, token, PlainShape, 0)
              R == CreateCall(assetSender, assetSender, token, PlainShape, extra)
          IN R0.ok => R.ok /\ R.algo[assetSender] = R0.algo[assetSender]

\* C18: the creator of a drop fronts the rent of the receipts of all possible
\* claims: a createDrop succeeds only if its payment covers the creation fee,
\* the rent of the two registry records and MaxClaims times the rent of one
\* receipt, and a cleanup pays the creator, on top of the rent of the two
\* registry records, the rent of the MaxClaims - NumClaims receipts never
\* written.
C18_CreatorFrontsReceiptRent ==
    /\ \A assetSender \in Creators, token \in Tokens, payDelta \in PayDeltas :
          LET R == CreateCall("u1", assetSender, token, PlainShape, payDelta) IN
          R.ok => getDropCreateCost(Ledger) + payDelta
                     >= creationFeeAmount + RegistryRent
                        + R.allDrops[R.lastDropId].MaxClaims * getPerClaimerMbrCost
    /\ \A d \in Stored :
          LET R == cleanupDrop(Ledger, allDrops[d].DropCreator, d, now) IN
          R.ok => R.algo[allDrops[d].DropCreator]
                     >= RegistryRent
                        + (allDrops[d].MaxClaims - allDrops[d].NumClaims) * getPerClaimerMbrCost

\* the sum of NumClaims over the stored drops with an id in S
RECURSIVE SumNumClaims(_)
SumNumClaims(S) ==
    IF S = {} THEN 0
    ELSE LET d == CHOOSE x \in S : TRUE
         IN allDrops[d].NumClaims + SumNumClaims(S \ {d})

\* C19: totalClaims is 0 after construction and is never below the sum of
\* NumClaims over the stored drops, nor below the number of receipts; a call
\* that fails leaves it alone, whatever it is.
C19_CounterState ==
    /\ last.op = "createApplication" => totalClaims = 0
    /\ totalClaims >= SumNumClaims(Stored)
    /\ totalClaims >= Cardinality(DOMAIN claimedMap)
    /\ \A sender \in Users, tokenDropId \in DropIds, offer \in CoreOffers :
          LET R == ClaimCall(sender, 0, perClaimFeeAmount, tokenDropId, offer) IN
          R.totalClaims = totalClaims + (IF R.ok THEN 1 ELSE 0)

\* a step that is a successful claimDrop adds exactly 1 to totalClaims, and
\* every other step (createDrop, cancelDrop, cleanupDrop, claimClaimerBoxCost,
\* optinAsset, the administrative operations, the passing of time) leaves
\* it as it was: it counts the successful claims so far
C19_CounterStep ==
    totalClaims' = totalClaims + (IF last'.op = "claimDrop" /\ last' # last THEN 1 ELSE 0)

C20_RentState == appAlgo - minBalance(Ledger) = 0

C20_RentStep == appAlgo' - appAlgo = minBalanceNext - minBalance(Ledger)

C20_RentNetsToZero == []C20_RentState /\ [][C20_RentStep]_vars

\* a drop with a claim has been cleaned up: the receipt outlives it, its rent
\* stays locked in the contract, and the balance is the minimum balance
C20_Witness ==
    /\ last.op = "cleanupDrop"
    /\ \E k \in DOMAIN claimedMap : k.TokenDropId \notin Stored
    /\ appAlgo = minBalance(Ledger)
    /\ appAlgo > AccountMinBalance

\* C21: in every reachable state the contract's balance of each token T is
\* the AmountRemaining of the stored drop for T, and 0 when no drop for T is
\* stored (tokens enter the contract through createDrop only).
C21_BalanceState ==
    \A t \in Tokens :
        LET drops == {d \in Stored : allDrops[d].Config.Token = t} IN
        /\ Cardinality(drops) <= 1
        /\ drops = {} => appAsset[t] = 0
        /\ \A d \in drops : appAsset[t] = allDrops[d].AmountRemaining

\* a createDrop that supersedes a drop with tokens left refunds exactly the
\* old remainder to the old creator and leaves the contract with exactly the
\* funding of the new drop
C21_SupersedeStep ==
    (last'.op = "createDrop" /\ last' # last /\ last'.arg.config.Token \in DOMAIN dropForToken) =>
        LET t == last'.arg.config.Token
            old == allDrops[dropForToken[t]]
            F == last'.arg.assetTxn.assetAmount
            funder == last'.arg.assetTxn.sender
        IN /\ appAsset'[t] = F
           /\ allDrops'[lastDropId'].AmountRemaining = F
           /\ last'.flow.asset[old.DropCreator][t]
                 = old.AmountRemaining - (IF funder = old.DropCreator THEN F ELSE 0)

C21_TokenBalanceIsRemaining == []C21_BalanceState /\ [][C21_SupersedeStep]_vars

\* a drop funded by one account has just superseded an expired drop of
\* another account that had tokens left: the old creator got them back and
\* the contract holds the new funding
C21_Witness ==
    /\ last.op = "createDrop"
    /\ \E c \in Users \ {last.arg.assetTxn.sender} :
          last.flow.asset[c][last.arg.config.Token] > 0
    /\ appAsset[last.arg.config.Token] = last.arg.assetTxn.assetAmount

\* the gating types with a branch in doesClaimAccountMeetGating
GatingTypes == GATING_TYPE_NONE..GATING_TYPE_CONST_MAX
\* the gating types configured with an NFD that createDrop validates
NfdConfiguredTypes == {GATING_TYPE_CREATED_BY_NFD_ADDRESSES, GATING_TYPE_SEGMENT_OF_NFD}

\* C22: every stored drop has a gating type in 0..7; a createDrop with a type
\* above 7 fails, a createDrop with type 3 or 4 fails unless the registry
\* validates the configured NFD, and a createDrop with any other admissible
\* gating succeeds wherever an ungated one does.
C22_GatingTagState ==
    /\ \A d \in Stored : allDrops[d].Config.entryGatingType \in GatingTypes
    /\ \A gate \in Gates, gatingNfdValid \in BOOLEAN :
          LET R == GatedCreateCall(gate, gatingNfdValid)
              Rplain == GatedCreateCall(Gate(GATING_TYPE_NONE, ZeroAddress, NoGatingAssets, 0),
                                        gatingNfdValid)
          IN /\ gate.type \notin GatingTypes => ~R.ok
             /\ (gate.type \in NfdConfiguredTypes /\ ~gatingNfdValid)
                   => R.err \in {"provided NFD App id for gating must be valid NFD", Rplain.err}
                      /\ ~R.ok
             /\ R.ok => Rplain.ok
             /\ (Rplain.ok /\ gate.type \in GatingTypes
                 /\ (gate.type \in NfdConfiguredTypes => gatingNfdValid)
                 /\ (gate.type = GATING_TYPE_NFD_HOLDING_AGE => gate.minBalance > 0))
                   => R.ok

\* a drop enters the registry with a gating type in 0..7, and the gating of
\* a stored drop never changes
C22_GatingTagStep ==
    /\ \A d \in DOMAIN allDrops' \ Stored :
          allDrops'[d].Config.entryGatingType \in GatingTypes
    /\ \A d \in DOMAIN allDrops' \cap Stored : allDrops'[d].Config = allDrops[d].Config

C22_GatingTagInRange == []C22_GatingTagState /\ [][C22_GatingTagStep]_vars

\* a drop gated by a segment of an NFD has just superseded another drop, and
\* in this state creations with tag 8 and with an NFD the registry does not
\* know are refused
C22_Witness ==
    /\ last.op = "createDrop"
    /\ last.id = 2
    /\ allDrops[last.id].Config.entryGatingType = GATING_TYPE_SEGMENT_OF_NFD
    /\ ~GatedCreateCall(Gate(GATING_TYPE_CONST_MAX + 1, ZeroAddress, NoGatingAssets, 0), TRUE).ok

\* a claim of sender on drop d meets every condition other than the gating:
\* the drop is stored and neither expired nor empty, the sender is not its
\* creator, holds an opt-in to the token and has no receipt
Eligible(sender, d) ==
    /\ d \in Stored
    /\ sender # allDrops[d].DropCreator
    /\ ~isDropExpiredOrEmpty(allDrops[d], now)
    /\ <<sender, allDrops[d].Config.Token>> \in optedIn
    /\ ~Receipt(d, sender)

\* the stored drops of a gating type
StoredOfType(type) == {d \in Stored : allDrops[d].Config.entryGatingType = type}

\* the balance a claimant must hold of the offered asset
BalanceRequired(tokenDropConfig) ==
    IF tokenDropConfig.gatingAssetMinBalance = 0 THEN 1
    ELSE tokenDropConfig.gatingAssetMinBalance

\* assets a claimant may offer: the id (0: none, and then nothing is held),
\* the claimant's balance of it, its creator, and the address list of the
\* configured NFD
AssetProbes ==
    {Offer(v, ExtOf(b, c, l)) :
        v \in {GateAsset, OtherAsset}, b \in 0..3, c \in {Issuer, ZeroAddress, "u1"},
        l \in {<<>>, <<ZeroAddress>>, <<ZeroAddress, Issuer>>, <<"u1">>}}
    \cup {Offer(0, ExtOf(0, ZeroAddress, l)) : l \in {<<>>, <<ZeroAddress>>}}

\* C23: on a drop with gating type 2 a claim that meets all other conditions
\* succeeds iff the offered asset id is not 0, is one of the four configured
\* slots, and the claimant's balance of it is at least max(1,
\* gatingAssetMinBalance); an offered id of 0 fails although 0 fills the
\* unused slots.
C23_AssetIdGate ==
    \A d \in StoredOfType(GATING_TYPE_ASSET_ID), sender \in Users, offer \in AssetProbes :
        LET cfg == allDrops[d].Config IN
        ClaimCall(sender, 0, perClaimFeeAmount, d, offer).ok
           <=> /\ Eligible(sender, d)
               /\ offer.valueToVerify # 0
               /\ \E i \in 1..GatingAssetSlots : cfg.entryGatingAssets[i] = offer.valueToVerify
               /\ offer.ext.assetBalance >= BalanceRequired(cfg)

\* a claim has just succeeded on a drop with allow-list [7, 0, 0, 0]; for
\* the other claimant asset 7 passes, asset 9 and asset 0 fail
C23_Witness ==
    /\ last.op = "claimDrop"
    /\ last.id \in StoredOfType(GATING_TYPE_ASSET_ID)
    /\ allDrops[last.id].Config.entryGatingAssets = <<GateAsset, 0, 0, 0>>
    /\ \E sender \in Users \ {last.sender} :
          /\ ClaimCall(sender, 0, perClaimFeeAmount, last.id,
                       Offer(GateAsset, ExtOf(1, Issuer, <<>>))).ok
          /\ ~ClaimCall(sender, 0, perClaimFeeAmount, last.id,
                        Offer(OtherAsset, ExtOf(1, Issuer, <<>>))).ok
          /\ ~ClaimCall(sender, 0, perClaimFeeAmount, last.id,
                        Offer(0, ExtOf(0, ZeroAddress, <<>>))).ok

\* C24: on a drop with gating type 1 a claim that meets all other conditions
\* succeeds iff the claimant's balance of the offered asset, as read by the
\* claim, is at least the configured minimum (1 when it is 0) and the
\* creator of the offered asset is Config.entryGatingAddress.
C24_CreatedByGate ==
    \A d \in StoredOfType(GATING_TYPE_ASSETS_CREATED_BY), sender \in Users,
       offer \in AssetProbes :
        LET cfg == allDrops[d].Config IN
        ClaimCall(sender, 0, perClaimFeeAmount, d, offer).ok
           <=> /\ Eligible(sender, d)
               /\ offer.ext.assetBalance >= BalanceRequired(cfg)
               /\ offer.ext.assetCreator = cfg.entryGatingAddress

\* a claim has just succeeded on a drop that asks for 2 units of an asset of
\* the issuer; the other claimant passes with 2 units, and fails with 1 unit
\* or with an asset of another creator
C24_Witness ==
    /\ last.op = "claimDrop"
    /\ last.id \in StoredOfType(GATING_TYPE_ASSETS_CREATED_BY)
    /\ allDrops[last.id].Config.gatingAssetMinBalance = 2
    /\ \E sender \in Users \ {last.sender} :
          /\ ClaimCall(sender, 0, perClaimFeeAmount, last.id,
                       Offer(GateAsset, ExtOf(2, Issuer, <<>>))).ok
          /\ ~ClaimCall(sender, 0, perClaimFeeAmount, last.id,
                        Offer(GateAsset, ExtOf(1, Issuer, <<>>))).ok
          /\ ~ClaimCall(sender, 0, perClaimFeeAmount, last.id,
                        Offer(GateAsset, ExtOf(2, "u1", <<>>))).ok

\* C25: on a drop with gating type 3 a claim that meets all other conditions
\* succeeds iff the claimant holds the required balance of the offered asset
\* and the creator of that asset is an entry, other than the all-zero one, of
\* the address list the claim reads from the configured NFD; so an all-zero
\* entry never matches, not even an asset whose creator is the zero address,
\* and an empty list rejects every claim.
C25_NfdAddressesGate ==
    \A d \in StoredOfType(GATING_TYPE_CREATED_BY_NFD_ADDRESSES), sender \in Users,
       offer \in AssetProbes :
        LET cfg == allDrops[d].Config
            list == offer.ext.caAlgo
            R == ClaimCall(sender, 0, perClaimFeeAmount, d, offer)
        IN /\ R.ok <=> /\ Eligible(sender, d)
                       /\ offer.ext.assetBalance >= BalanceRequired(cfg)
                       /\ \E i \in 1..Len(list) :
                             list[i] = offer.ext.assetCreator /\ list[i] # ZeroAddress
           /\ list = <<>> => ~R.ok
           /\ offer.ext.assetCreator = ZeroAddress => ~R.ok

\* a claim has just succeeded on a drop gated by the addresses of an NFD; for
\* the other claimant an asset of the issuer passes when the list holds the
\* issuer, and an asset created by the zero address fails against a list
\* that holds the all-zero entry
C25_Witness ==
    /\ last.op = "claimDrop"
    /\ last.id \in StoredOfType(GATING_TYPE_CREATED_BY_NFD_ADDRESSES)
    /\ \E sender \in Users \ {last.sender} :
          /\ ClaimCall(sender, 0, perClaimFeeAmount, last.id,
                       Offer(GateAsset, ExtOf(1, Issuer, <<ZeroAddress, Issuer>>))).ok
          /\ ~ClaimCall(sender, 0, perClaimFeeAmount, last.id,
                        Offer(GateAsset, ExtOf(1, ZeroAddress, <<ZeroAddress>>))).ok
          /\ ~ClaimCall(sender, 0, perClaimFeeAmount, last.id,
                        Offer(GateAsset, ExtOf(1, Issuer, <<>>))).ok

\* addr is an entry, other than the all-zero one, of an address list
Linked(list, addr) == \E i \in 1..Len(list) : list[i] = addr /\ list[i] # ZeroAddress

\* NFDs a claimant may offer on a drop gated by segments of an NFD: known to
\* the registry or not, owned by and linked to several accounts, under
\* several parents
SegmentProbes ==
    {Offer(GateRoot + 2,
           [GoodNfd(owner) EXCEPT !.nfdValid = valid, !.nfdParent = parent, !.caAlgo = list]) :
        valid \in BOOLEAN, owner \in Users, parent \in {GateRoot, OtherRoot, 0},
        list \in {<<>>, <<"u2">>, <<ZeroAddress, "u3">>}}

\* C26: on a drop with gating type 4 a claim that meets all other conditions
\* succeeds iff the registry validates the offered NFD, the claimant is its
\* owner or an entry of its verified address list, and its parent id is
\* Config.entryGatingAssets[0]; an NFD that fails one of the three is
\* rejected, and a rejected claim changes nothing.
C26_SegmentGate ==
    \A d \in StoredOfType(GATING_TYPE_SEGMENT_OF_NFD), sender \in Users,
       offer \in SegmentProbes :
        LET cfg == allDrops[d].Config
            nfd == offer.ext
        IN ClaimCall(sender, 0, perClaimFeeAmount, d, offer).ok
              <=> /\ Eligible(sender, d)
                  /\ nfd.nfdValid
                  /\ (nfd.nfdOwner = sender \/ Linked(nfd.caAlgo, sender))
                  /\ nfd.nfdParent = cfg.entryGatingAssets[1]

\* a claim has just succeeded on a drop gated by the segments of GateRoot;
\* the other claimant passes as owner and as linked address of a segment,
\* and fails with an NFD the registry does not know, with one of another
\* account, and with a segment of another root
C26_Witness ==
    /\ last.op = "claimDrop"
    /\ last.id \in StoredOfType(GATING_TYPE_SEGMENT_OF_NFD)
    /\ \E sender \in Users \ {last.sender} :
          /\ ClaimCall(sender, 0, perClaimFeeAmount, last.id,
                       Offer(GateRoot + 2, GoodNfd(sender))).ok
          /\ ClaimCall(sender, 0, perClaimFeeAmount, last.id,
                       Offer(GateRoot + 2, [GoodNfd("u1") EXCEPT !.caAlgo = <<sender>>])).ok
          /\ ~ClaimCall(sender, 0, perClaimFeeAmount, last.id,
                        Offer(GateRoot + 2, [GoodNfd(sender) EXCEPT !.nfdValid = FALSE])).ok
          /\ ~ClaimCall(sender, 0, perClaimFeeAmount, last.id,
                        Offer(GateRoot + 2, GoodNfd("u1"))).ok
          /\ ~ClaimCall(sender, 0, perClaimFeeAmount, last.id,
                        Offer(GateRoot + 2, [GoodNfd(sender) EXCEPT !.nfdParent = OtherRoot])).ok

\* the first two bytes of i.ver for the major versions 1 to 4
MajorVersions == <<"1.", "2.", "3.", "4.">>

\* NFDs a claimant may offer on a drop gated by a verified handle: every
\* field the checks read varied on its own; the owner may also be linked
HandleProbes ==
    {Offer(GateRoot + 2,
           ExtNfd(valid, owner, GateRoot, MajorVersions[major], sellamt, expirationTime,
                  twitter, blueskydid, now - OneDay, list)) :
        valid \in BOOLEAN, owner \in Users, major \in 1..4, sellamt \in {0, 5},
        expirationTime \in {0, now - 1, now, now + 1}, twitter \in {"", "@handle"},
        blueskydid \in {"", "did:plc:x"}, list \in {<<>>, <<"u2", "u3">>}}

\* the major version of an offered NFD
MajorOf(nfd) == CHOOSE major \in 1..4 : MajorVersions[major] = nfd.majVer

\* the offered NFD is known to the registry, of version 3 or later, not for
\* sale, not expired (0: never expires) and owned by the claimant
ValidOwnedV3(nfd, sender) ==
    /\ nfd.nfdValid
    /\ MajorOf(nfd) >= 3
    /\ nfd.sellamt = 0
    /\ (nfd.expirationTime = 0 \/ now <= nfd.expirationTime)
    /\ nfd.nfdOwner = sender

\* C27: on a drop with gating type 5 or 6 a claim that meets all other
\* conditions succeeds iff the offered NFD is known to the registry, has
\* major version 3 or later, is not for sale, is not expired (expiration 0
\* never expires, otherwise now <= expiration), is owned by the claimant (a
\* linked address is not enough) and has a non-empty handle of the type:
\* twitter for 5, bluesky for 6.
C27_HandleGate ==
    \A d \in StoredOfType(GATING_TYPE_NFD_W_VERIFIED_TWITTER)
             \cup StoredOfType(GATING_TYPE_NFD_W_VERIFIED_BLUESKY),
       sender \in Users, offer \in HandleProbes :
        LET type == allDrops[d].Config.entryGatingType
            nfd == offer.ext
            handle == IF type = GATING_TYPE_NFD_W_VERIFIED_TWITTER THEN nfd.twitter
                      ELSE nfd.blueskydid
        IN ClaimCall(sender, 0, perClaimFeeAmount, d, offer).ok
              <=> /\ Eligible(sender, d)
                  /\ ValidOwnedV3(nfd, sender)
                  /\ handle # ""

\* a claim has just succeeded on a drop gated by a verified bluesky handle;
\* the other claimant passes with an NFD without a twitter handle that
\* expires this very second, and fails with one that expired a second ago,
\* with one it is only linked to, and with one of version 2
C27_Witness ==
    /\ last.op = "claimDrop"
    /\ last.id \in StoredOfType(GATING_TYPE_NFD_W_VERIFIED_BLUESKY)
    /\ \E sender \in Users \ {last.sender} :
          /\ ClaimCall(sender, 0, perClaimFeeAmount, last.id,
                       Offer(GateRoot + 2, [GoodNfd(sender) EXCEPT !.twitter = "",
                                                                   !.expirationTime = now])).ok
          /\ ~ClaimCall(sender, 0, perClaimFeeAmount, last.id,
                        Offer(GateRoot + 2, [GoodNfd(sender) EXCEPT !.expirationTime = now - 1])).ok
          /\ ~ClaimCall(sender, 0, perClaimFeeAmount, last.id,
                        Offer(GateRoot + 2, [GoodNfd("u1") EXCEPT !.caAlgo = <<sender>>])).ok
          /\ ~ClaimCall(sender, 0, perClaimFeeAmount, last.id,
                        Offer(GateRoot + 2, [GoodNfd(sender) EXCEPT !.majVer = "2."])).ok

\* NFDs a claimant may offer on a drop gated by the holding age: the fields
\* of the validity checks and the time of purchase varied on their own
AgeProbes ==
    {Offer(GateRoot + 2,
           ExtNfd(valid, owner, GateRoot, MajorVersions[major], sellamt, expirationTime,
                  "", "", timePurchased, list)) :
        valid \in BOOLEAN, owner \in Users, major \in 1..4, sellamt \in {0, 5},
        expirationTime \in {0, now - 1, now, now + 1},
        timePurchased \in {now, now - OneDay + 1, now - OneDay, now - 2 * OneDay + 1,
                           now - 2 * OneDay},
        list \in {<<>>, <<"u2", "u3">>}}

\* C28: on a drop with gating type 7 a claim that meets all other conditions
\* succeeds iff the offered NFD passes the validity and ownership checks of
\* the types 5 and 6 and purchaseTime + gatingAssetMinBalance * 86400 <= now;
\* a createDrop with type 7 and gatingAssetMinBalance = 0 fails, so every
\* stored drop of type 7 asks for a holding age of at least one day.
C28_HoldingAgeGate ==
    /\ \A d \in StoredOfType(GATING_TYPE_NFD_HOLDING_AGE) :
          /\ allDrops[d].Config.gatingAssetMinBalance >= 1
          /\ \A sender \in Users, offer \in AgeProbes :
                ClaimCall(sender, 0, perClaimFeeAmount, d, offer).ok
                   <=> /\ Eligible(sender, d)
                       /\ ValidOwnedV3(offer.ext, sender)
                       /\ offer.ext.timePurchased
                             + allDrops[d].Config.gatingAssetMinBalance * OneDay <= now
    /\ \A gatingNfdValid \in BOOLEAN :
          LET R == GatedCreateCall(Gate(GATING_TYPE_NFD_HOLDING_AGE, ZeroAddress,
                                        NoGatingAssets, 0), gatingNfdValid)
              R1 == GatedCreateCall(Gate(GATING_TYPE_NFD_HOLDING_AGE, ZeroAddress,
                                         NoGatingAssets, 1), gatingNfdValid)
          IN /\ ~R.ok
             /\ R1.ok => R.err = "asset min balance - used as nfd holding age - must be >0"

\* a claim has just succeeded on a drop that asks for a holding age of 2
\* days; the other claimant passes with an NFD bought exactly 2 days ago and
\* fails with one bought a second later
C28_Witness ==
    /\ last.op = "claimDrop"
    /\ last.id \in StoredOfType(GATING_TYPE_NFD_HOLDING_AGE)
    /\ allDrops[last.id].Config.gatingAssetMinBalance = 2
    /\ \E sender \in Users \ {last.sender} :
          /\ ClaimCall(sender, 0, perClaimFeeAmount, last.id,
                       Offer(GateRoot + 2,
                             [GoodNfd(sender) EXCEPT !.timePurchased = now - 2 * OneDay])).ok
          /\ ~ClaimCall(sender, 0, perClaimFeeAmount, last.id,
                        Offer(GateRoot + 2,
                              [GoodNfd(sender) EXCEPT !.timePurchased = now - 2 * OneDay + 1])).ok

\* C29: in every reachable state perClaimFeeAmount >= 2 * rent of a receipt
\* and creationFeeAmount is even; a changeFees with a pair that breaks this
\* fails and leaves both fees as they are; so the share of the fee sink in
\* claimDrop is never negative and no claimDrop fails on its fee check.
C29_FeeState ==
    /\ perClaimFeeAmount >= 2 * getPerClaimerMbrCost
    /\ creationFeeAmount % 2 = 0
    /\ perClaimFeeAmount - (perClaimFeeAmount * 500) \div 1000 - getPerClaimerMbrCost >= 0
    /\ \A sender \in {AppCreator, "u1"}, creationFee \in CreationFees,
          perClaimFee \in PerClaimFees :
          LET R == changeFees(Ledger, sender, creationFee, perClaimFee) IN
          /\ (perClaimFee < 2 * getPerClaimerMbrCost \/ creationFee % 2 # 0) => ~R.ok
          /\ ~R.ok => /\ R.creationFeeAmount = creationFeeAmount
                      /\ R.perClaimFeeAmount = perClaimFeeAmount
          /\ R.ok => /\ R.creationFeeAmount = creationFee
                     /\ R.perClaimFeeAmount = perClaimFee
    /\ \A sender \in Users, tokenDropId \in DropIds,
          amount \in {perClaimFeeAmount - 1, perClaimFeeAmount, perClaimFeeAmount + 1} :
          ClaimCall(sender, 0, amount, tokenDropId, Offer(0, ExtAsset(0))).err
             \notin {"per-claim fee too low", "- would result negative", "overspend",
                     "balance below min"}

\* the fees change in a changeFees step only
C29_FeeStep ==
    (creationFeeAmount' # creationFeeAmount \/ perClaimFeeAmount' # perClaimFeeAmount)
        => last'.op = "changeFees"

C29_FeesStayValid == []C29_FeeState /\ [][C29_FeeStep]_vars

\* a claim has just been paid with the smallest per-claim fee there can be,
\* twice the rent of a receipt: the fee sink got exactly nothing
C29_Witness ==
    /\ last.op = "claimDrop"
    /\ perClaimFeeAmount = 2 * getPerClaimerMbrCost
    /\ last.flow.algo[FeeSink] = 0
    /\ ~changeFees(Ledger, AppCreator, creationFeeAmount, perClaimFeeAmount - 1).ok

\* C30: changeFees, called by the application creator with a valid per-claim
\* fee, accepts every even creation fee of at least 2 ALGO (2,000,000
\* microAlgo), exactly 2,000,000 included.
C30_TwoAlgoAccepted ==
    \A creationFee \in CreationFees, perClaimFee \in PerClaimFees :
        (creationFee >= 2000000 /\ creationFee % 2 = 0
         /\ perClaimFee >= 2 * getPerClaimerMbrCost)
            => changeFees(Ledger, AppCreator, creationFee, perClaimFee).ok

\* C31: changeMaintainer, changeFees and updateApplication succeed only when
\* the sender is the application creator; a call from any other sender fails
\* and leaves maintainerAddress, creationFeeAmount and perClaimFeeAmount as
\* they are; and no other operation (create, claim, cancel, cleanup, reclaim,
\* optin) ever changes those three values.
C31_AdminState ==
    \A sender \in Accounts :
        /\ updateApplication(Ledger, sender).ok => sender = AppCreator
        /\ \A newMaintainer \in {Maintainer, "u3", sender} :
              LET R == changeMaintainer(Ledger, sender, newMaintainer) IN
              /\ R.ok => sender = AppCreator
              /\ ~R.ok => /\ R.maintainerAddress = maintainerAddress
                          /\ R.creationFeeAmount = creationFeeAmount
                          /\ R.perClaimFeeAmount = perClaimFeeAmount
        /\ \A creationFee \in CreationFees, perClaimFee \in PerClaimFees :
              LET R == changeFees(Ledger, sender, creationFee, perClaimFee) IN
              /\ R.ok => sender = AppCreator
              /\ ~R.ok => /\ R.maintainerAddress = maintainerAddress
                          /\ R.creationFeeAmount = creationFeeAmount
                          /\ R.perClaimFeeAmount = perClaimFeeAmount

\* the three values change only in a step of changeMaintainer or changeFees
\* sent by the application creator, and each method changes only its own
C31_AdminStep ==
    /\ maintainerAddress' # maintainerAddress
          => last'.op = "changeMaintainer" /\ last'.sender = AppCreator
    /\ (creationFeeAmount' # creationFeeAmount \/ perClaimFeeAmount' # perClaimFeeAmount)
          => last'.op = "changeFees" /\ last'.sender = AppCreator

C32_RecordedCall(payDelta) ==
    createDrop(Ledger, last'.sender,
               PayTxn(last'.arg.assetTxn.sender, AppAddress,
                      getDropCreateCost(Ledger) + payDelta),
               last'.arg.assetTxn, last'.arg.config, TRUE, now)

\* C32: a createDrop that fails any check leaves no partial state: lastDropId,
\* the drop registry, the token index, receipts and all balances are as
\* before the call, also when the failure (an under-funded payment, an
\* invalid gating config) is detected after the prior drop of the token has
\* been torn down or the new record has been written.  So whatever a
\* createDrop step changes is the whole effect of a call that passed every
\* check.
C32_CreateStep ==
    Stepped("createDrop") =>
        \E payDelta \in PayDeltas :
            /\ C32_RecordedCall(payDelta).ok
            /\ StateOf(C32_RecordedCall(payDelta)) = ledgerVars'
            /\ \A a \in Others :
                  /\ last'.flow.algo[a] = C32_RecordedCall(payDelta).algo[a]
                  /\ last'.flow.asset[a] = C32_RecordedCall(payDelta).asset[a]

C33_AnyoneCleansUpFinishedDrop ==
    \A d \in Stored :
        isDropExpiredOrEmpty(allDrops[d], now) =>
            /\ \A sender \in Users \cup {AppCreator} :
                  LET R == cleanupDrop(Ledger, sender, d, now) IN
                  /\ R.ok
                  /\ d \notin DOMAIN R.allDrops
                  /\ allDrops[d].Config.Token \notin DOMAIN R.dropForToken
            /\ <<"u2", allDrops[d].Config.Token>> \in optedIn
                  => CreateCall("u2", "u2", allDrops[d].Config.Token, PlainShape, 0).ok

\* the drops that have been created and torn down
C34_TornDown == (1..lastDropId) \ Stored

\* C34: once drop d has been torn down (by cleanupDrop, cancelDrop or the
\* supersede of createDrop), claimClaimerBoxCost for d fails forever, so every
\* receipt of d that was not reclaimed before the teardown stays in the
\* ledger in all later states, and its rent stays with the contract.
C34_OrphanState ==
    /\ \A d \in C34_TornDown, claimerAddress \in Users, receiver \in Others :
          ~claimClaimerBoxCost(Ledger, d, claimerAddress, receiver, now).ok
    /\ appAlgo >= minBalance(Ledger)

C34_OrphanStep ==
    \A d \in C34_TornDown :
        /\ d \in C34_TornDown'
        /\ \A a \in Users : Receipt(d, a) => Receipt(d, a)'

C34_OrphanedReceiptsStay == []C34_OrphanState /\ [][C34_OrphanStep]_vars

\* the rent of a receipt has just been reclaimed from a drop that is stored,
\* while a receipt of a drop that was torn down is still in the ledger
C34_Witness ==
    /\ last.op = "claimClaimerBoxCost"
    /\ last.id \in Stored
    /\ \E d \in C34_TornDown, a \in Users :
          /\ Receipt(d, a)
          /\ claimClaimerBoxCost(Ledger, d, a, a, now).err = "box not found"

\* C35: no address is ever paid from the same drop twice, even after its
\* receipt has been erased: for every drop d and address a, over any sequence
\* of claimDrop, claimClaimerBoxCost, cleanupDrop, cancelDrop and createDrop
\* calls with non-decreasing time, at most one claimDrop by a on d succeeds.
C35_PaidState ==
    \A k \in claimsPaid :
        \A offer \in CoreOffers, optInAsset \in {0, FeeToken},
           amount \in {perClaimFeeAmount, perClaimFeeAmount + 1} :
            ~ClaimCall(k.Address, optInAsset, amount, k.TokenDropId, offer).ok

\* a step of claimDrop pays an address the drop has not paid before
C35_PaidStep ==
    (last'.op = "claimDrop" /\ ledgerVars' # ledgerVars)
        => AddressClaimKey(last'.id, last'.sender) \notin claimsPaid

C35_PaidOncePerDrop == []C35_PaidState /\ [][C35_PaidStep]_vars

\* an address was paid from a drop that is still stored and has tokens left,
\* its receipt has been erased, and its next claim is turned down because
\* the drop has expired
C35_Witness ==
    \E k \in claimsPaid :
        /\ k \notin DOMAIN claimedMap
        /\ k.TokenDropId \in Stored
        /\ allDrops[k.TokenDropId].AmountRemaining > 0
        /\ <<k.Address, FeeToken>> \in optedIn
        /\ ClaimCall(k.Address, 0, perClaimFeeAmount, k.TokenDropId, Offer(0, ExtAsset(0))).err
              = "airdrop has ended or out of tokens"

\* C36: the expired-or-empty predicate is monotone: with non-decreasing time,
\* once a stored drop has AmountRemaining = 0 or now > AirdropEndTime it has
\* it in every later state until it is deleted, so a drop never returns to
\* active; and in no state can both a claimDrop and a claimClaimerBoxCost
\* (or a cleanupDrop of another account than the creator) succeed on the
\* same drop.
C36_OverState ==
    \A d \in Stored :
        LET over == allDrops[d].AmountRemaining = 0 \/ now > allDrops[d].Config.AirdropEndTime
        IN /\ (\E sender \in Users, offer \in CoreOffers :
                  ClaimCall(sender, 0, perClaimFeeAmount, d, offer).ok) => ~over
           /\ (\E claimerAddress \in Users, receiver \in Users :
                  claimClaimerBoxCost(Ledger, d, claimerAddress, receiver, now).ok) => over
           /\ (\E sender \in Accounts \ {allDrops[d].DropCreator} :
                  cleanupDrop(Ledger, sender, d, now).ok) => over

C36_OverStep ==
    \A d \in Stored :
        (/\ allDrops[d].AmountRemaining = 0 \/ now > allDrops[d].Config.AirdropEndTime
         /\ d \in DOMAIN allDrops')
            => \/ allDrops'[d].AmountRemaining = 0
               \/ now' > allDrops'[d].Config.AirdropEndTime

C36_FinishedStaysFinished == []C36_OverState /\ [][C36_OverStep]_vars

\* the last claim has just emptied a drop before its expiry: the rent of the
\* claimant's receipt can be reclaimed, another account can clean the drop
\* up, and no claim succeeds
C36_Witness ==
    /\ last.op = "claimDrop"
    /\ last.id \in Stored
    /\ allDrops[last.id].AmountRemaining = 0
    /\ now <= allDrops[last.id].Config.AirdropEndTime
    /\ claimClaimerBoxCost(Ledger, last.id, last.sender, "u3", now).ok
    /\ cleanupDrop(Ledger, "u3", last.id, now).ok
    /\ \A sender \in Users, offer \in CoreOffers :
          ~ClaimCall(sender, 0, perClaimFeeAmount, last.id, offer).ok

\* the number of receipts keyed by drop d
C37_Receipts(d) == Cardinality({k \in DOMAIN claimedMap : k.TokenDropId = d})

\* C37: in every reachable state every stored drop d has
\* 0 <= NumClaims <= MaxClaims and
\* 0 <= AmountRemaining <= MaxClaims * AmountPerClaim, the number of receipts
\* keyed by d is at most NumClaims, and while d is neither expired nor empty
\* the number of receipts keyed by d is NumClaims exactly.
C37_DropBounds ==
    \A d \in Stored :
        LET dropInfo == allDrops[d] IN
        /\ 0 <= dropInfo.NumClaims /\ dropInfo.NumClaims <= dropInfo.MaxClaims
        /\ 0 <= dropInfo.AmountRemaining
        /\ dropInfo.AmountRemaining <= dropInfo.MaxClaims * dropInfo.Config.AmountPerClaim
        /\ C37_Receipts(d) <= dropInfo.NumClaims
        /\ ~(dropInfo.AmountRemaining = 0 \/ now > dropInfo.Config.AirdropEndTime)
              => C37_Receipts(d) = dropInfo.NumClaims

\* two drops are stored: one is active with one claim of two counted and one
\* receipt, the other is over with more claims counted than receipts left
C37_Witness ==
    \E d \in Stored, e \in Stored :
        /\ ~isDropExpiredOrEmpty(allDrops[d], now)
        /\ allDrops[d].MaxClaims = 2
        /\ allDrops[d].NumClaims = 1
        /\ C37_Receipts(d) = 1
        /\ isDropExpiredOrEmpty(allDrops[e], now)
        /\ C37_Receipts(e) < allDrops[e].NumClaims

\* C38: receipt rent is paid out at most once per receipt: for every (drop,
\* address) the total ALGO paid by all claimClaimerBoxCost calls for that key
\* is at most the rent of one receipt, and a call for a key with no receipt
\* (never claimed, or already reclaimed) pays nothing and changes no stored
\* state.
C38_RentState ==
    /\ \A k \in DOMAIN rentPaid :
          /\ rentPaid[k] <= getPerClaimerMbrCost
          /\ k \in claimsPaid
    /\ \A d \in DropIds, claimerAddress \in Users, receiver \in Others :
          ~Receipt(d, claimerAddress) =>
              LET R == claimClaimerBoxCost(Ledger, d, claimerAddress, receiver, now) IN
              R.ok => /\ StateOf(R) = StateOf(Ledger)
                      /\ \A a \in Others : R.algo[a] = 0

\* a step of claimClaimerBoxCost pays the rent of one receipt, for a key that
\* had a receipt and has not been paid for before
C38_RentStep ==
    (last'.op = "claimClaimerBoxCost" /\ ledgerVars' # ledgerVars) =>
        LET k == AddressClaimKey(last'.id, last'.arg.claimerAddress) IN
        /\ k \in DOMAIN claimedMap
        /\ k \notin DOMAIN claimedMap'
        /\ k \notin DOMAIN rentPaid
        /\ rentPaid'[k] = getPerClaimerMbrCost
        /\ last'.flow.algo[last'.arg.receiver] = getPerClaimerMbrCost
        /\ appAlgo' = appAlgo - getPerClaimerMbrCost

C38_RentPaidOnce == []C38_RentState /\ [][C38_RentStep]_vars

\* the rent of a receipt has been paid out, another receipt of the same drop
\* is still there, and a second call for the paid key succeeds, pays nothing
\* and changes nothing
C38_Witness ==
    \E k \in DOMAIN rentPaid :
        /\ rentPaid[k] = getPerClaimerMbrCost
        /\ k.TokenDropId \in Stored
        /\ \E a \in Users : Receipt(k.TokenDropId, a)
        /\ claimClaimerBoxCost(Ledger, k.TokenDropId, k.Address, "u3", now).ok
        /\ claimClaimerBoxCost(Ledger, k.TokenDropId, k.Address, "u3", now).algo["u3"] = 0

\* C39: the ALGO refund of a teardown is exactly rent(drop record) +
\* rent(index record), plus the asset opt-in minimum balance exactly when the
\* contract's balance of the token is 0 after the token refund, in which case
\* the contract also opts out of the token; on the supersede path of
\* createDrop the new funding is already held, so the contract stays opted in
\* and the old creator gets only the rent of the two records.
C39_RefundStep ==
    \A d \in Stored \ DOMAIN allDrops' :
        LET c == allDrops[d].DropCreator
            t == allDrops[d].Config.Token
            left == appAsset'[t]
        IN
        /\ <<AppAddress, t>> \in optedIn
        /\ last'.op \in {"cancelDrop", "cleanupDrop"} =>
              /\ last'.flow.algo[c]
                    = RegistryRent + (IF left = 0 THEN AssetOptInMinBalance ELSE 0)
              /\ left = 0 <=> <<AppAddress, t>> \notin optedIn'
              /\ \A a \in Others \ {c} : last'.flow.algo[a] = 0
        /\ last'.op = "createDrop" =>
              LET funder == last'.arg.assetTxn.sender IN
              /\ left >= last'.arg.assetTxn.assetAmount
              /\ <<AppAddress, t>> \in optedIn'
              /\ last'.flow.algo[c]
                    = RegistryRent - (IF funder = c THEN getDropCreateCost(Ledger) ELSE 0)

C40_OptinState ==
    \A sender \in Users, payer \in Users, assetId \in Tokens :
        LET R == optinAsset(Ledger, sender,
                            PayTxn(payer, AppAddress, AssetOptInMinBalance), assetId)
            again == optinAsset(R, sender,
                                PayTxn(payer, AppAddress, AssetOptInMinBalance), assetId)
        IN
        /\ R.ok
        /\ R.optedIn = optedIn \cup {<<AppAddress, assetId>>}
        /\ R.asset = Ledger.asset
        /\ R.allDrops = allDrops /\ R.dropForToken = dropForToken
        /\ R.claimedMap = claimedMap
        /\ R.lastDropId = lastDropId /\ R.totalClaims = totalClaims
        /\ R.maintainerAddress = maintainerAddress
        /\ R.creationFeeAmount = creationFeeAmount
        /\ R.perClaimFeeAmount = perClaimFeeAmount
        /\ IF <<AppAddress, assetId>> \in optedIn
           THEN /\ R.algo[AppAddress] = appAlgo
                /\ \A a \in Others :
                      R.algo[a] = (IF a = sender THEN AssetOptInMinBalance ELSE 0)
                                  - (IF a = payer THEN AssetOptInMinBalance ELSE 0)
           ELSE /\ R.algo[AppAddress] = appAlgo + AssetOptInMinBalance
                /\ \A a \in Others :
                      R.algo[a] = IF a = payer THEN - AssetOptInMinBalance ELSE 0
        /\ again.ok
        /\ StateOf(again) = StateOf(R)

\* a step of optinAsset opens a holding of the contract and takes its rent
C40_OptinStep ==
    (last'.op = "optinAsset" /\ ledgerVars' # ledgerVars) =>
        /\ <<AppAddress, last'.arg.assetId>> \notin optedIn
        /\ optedIn' = optedIn \cup {<<AppAddress, last'.arg.assetId>>}
        /\ appAlgo' = appAlgo + AssetOptInMinBalance
        /\ last'.flow.algo[last'.sender] = - AssetOptInMinBalance
        /\ UNCHANGED <<maintainerAddress, creationFeeAmount, perClaimFeeAmount, totalClaims,
                       lastDropId, allDrops, dropForToken, claimedMap, appAsset>>

C40_OptinIdempotent == []C40_OptinState /\ [][C40_OptinStep]_vars

\* the contract is opted in to the token and holds a drop with a receipt;
\* a further optinAsset for the token succeeds and leaves the contract as it is
C40_Witness ==
    /\ <<AppAddress, FeeToken>> \in optedIn
    /\ \E d \in Stored, a \in Users : Receipt(d, a)
    /\ optinAsset(Ledger, "u1", PayTxn("u1", AppAddress, AssetOptInMinBalance), FeeToken).ok
    /\ StateOf(optinAsset(Ledger, "u1", PayTxn("u1", AppAddress, AssetOptInMinBalance),
                          FeeToken)) = StateOf(Ledger)
    /\ <<AppAddress, 101>> \notin optedIn
    /\ optinAsset(Ledger, "u1", PayTxn("u1", AppAddress, AssetOptInMinBalance), 101).optedIn
          # optedIn

=============================================================================
